---- MODULE Spec2Model ----
(***************************************************************************)
(* A model of the Nxera auditor core: the compliance rule catalogue and    *)
(* its evaluator (compliance_engine.py), the anomaly and red-flag          *)
(* detectors (audit_logic.py), the fraud scorer (fraud_model.py) and the   *)
(* audit flow that strings them together (app.py).                         *)
(*                                                                         *)
(* A ledger is a pandas DataFrame.  It is modelled by the set of columns   *)
(* it has, the dtype of its description column and the sequence of its     *)
(* rows.  Position k of the sequence is the row with index label k-1.      *)
(* Dates are counted in half days since Monday 2024-01-01 00:00, amounts   *)
(* are integers, a description is either missing (NaN/None) or a text,     *)
(* and a text is the sequence of its characters.  A raw ledger may hold    *)
(* dates that do not parse (NaT) and amounts that are missing (NaN): nat   *)
(* and nan are the sets of the positions of such rows, whose date or       *)
(* amount cell then holds no value the model reads.                        *)
(***************************************************************************)
EXTENDS Integers, Sequences, FiniteSets, TLC

VARIABLES
    df,          \* the ledger handed to the operation
    LAW_KB,      \* the legal knowledge base: rule id -> entry
    pc,          \* where the running operation is
    op,          \* the operation that was called
    exc,         \* the exception that left the operation ("" when none)
    catalogue,   \* evaluate(): the local catalogue
    ruleIdx,     \* evaluate(): position of the for loop in the catalogue
    findings,    \* evaluate(): the local findings list
    checked,     \* evaluate(): ids of the rules whose check was invoked
    calls,       \* how many times evaluate() was called on the ledger
    prev,        \* the findings the previous call of evaluate() returned
    audit,       \* what run_audit returned: <<>> or <<[summary, issues]>>
    red_flags,   \* what detect_red_flags returned: <<>> or <<tables>>
    scores,      \* what score_transactions returned: <<>> or <<risk per row>>
    features,    \* the feature table the scorer built last: <<>> or <<table>>
    explanation, \* what the explanation returned: <<>> or <<explanation>>
    shap_values, \* the attributions of the explained row: <<>> or <<vector>>
    modelFile,   \* the artifact as the scorer last found it
    region,      \* the page: the region picked in the sidebar
    compliance,  \* the page: the findings kept by the region filter
    opinion,     \* the page: <<>> or <<the opinion text>>
    generator,   \* the page: what the external generator did on the last call
    normalised,  \* what normalise_df returned: <<>> or <<ledger>>
    emitted      \* the page: the sections shown so far

evalVars == <<catalogue, ruleIdx, findings, checked, calls, prev>>
appVars == <<modelFile, region, compliance, opinion, emitted>>
scoreVars == <<scores, features, explanation, shap_values>>
sideVars == <<generator, normalised>>
vars == <<df, LAW_KB, pc, op, exc, evalVars, audit, red_flags, scoreVars, appVars, sideVars>>

(***************************************************************************)
(* Bounds of the model.                                                    *)
(***************************************************************************)
MaxRows == 3
MaxCalls == 2

(***************************************************************************)
(* Texts.                                                                  *)
(***************************************************************************)
Lower(c) ==
    CASE c = "L" -> "l" [] c = "E" -> "e" [] c = "A" -> "a" [] c = "S" -> "s"
      [] c = "U" -> "u" [] c = "N" -> "n" [] c = "R" -> "r" [] c = "D" -> "d"
      [] c = "M" -> "m" [] c = "T" -> "t"
      [] OTHER -> c

LowerText(t) == [k \in 1..Len(t) |-> Lower(t[k])]

\* Series.str.contains(pat, case=False) for a literal pattern: a match anywhere.
ContainsNoCase(t, pat) ==
    \E k \in 1..(Len(t) - Len(pat) + 1) :
        SubSeq(LowerText(t), k, k + Len(pat) - 1) = pat

LeaseWord == <<"l", "e", "a", "s", "e">>
UnearnedWord == <<"u", "n", "e", "a", "r", "n", "e", "d">>

Text(t) == [isna |-> FALSE, text |-> t]
NaN == [isna |-> TRUE, text |-> <<>>]

(***************************************************************************)
(* Ledgers.                                                                *)
(***************************************************************************)
Required == {"date", "description", "amount"}

Row(d, s, a) == [date |-> d, description |-> s, amount |-> a]

RowVals ==
    { Row(0,   Text(<<"r", "e", "n", "t">>),                          -500),
      Row(4,   Text(<<"r", "e", "n", "t">>),                          -500),
      Row(10,  Text(<<"L", "e", "a", "s", "e">>),                     -25000),
      Row(4,   Text(<<"U", "N", "E", "A", "R", "N", "E", "D">>),      30000),
      Row(71,  NaN,                                                   600000),
      Row(4,   Text(<<>>),                                            -20000),
      Row(0,   Text(<<" ">>),                                         -25500) }

RowSeqs == UNION { [1..n -> RowVals] : n \in 0..MaxRows }

\* A column a DataFrame does not have holds nothing: its cells are blanked.
Blank(r, cols) ==
    [date        |-> IF "date" \in cols THEN r.date ELSE 0,
     description |-> IF "description" \in cols THEN r.description ELSE NaN,
     amount      |-> IF "amount" \in cols THEN r.amount ELSE 0]

AllNaN(rows) == \A k \in 1..Len(rows) : rows[k].description.isna

\* The description column is of dtype object when it holds a text; a column
\* of nothing but NaN is float64 (read_csv of an empty column) or object.
ColumnSets == {Required} \cup { Required \ {c} : c \in Required }

Ledgers ==
    { [cols |-> c, rows |-> [k \in 1..Len(rs) |-> Blank(rs[k], c)], descDtype |-> t,
       nat |-> {}, nan |-> {}] :
        c \in ColumnSets, rs \in RowSeqs, t \in {"object", "float64"} }

WellTyped(l) ==
    /\ l.descDtype = "float64" => AllNaN(l.rows)
    /\ "description" \notin l.cols => l.descDtype = "object"

N(l) == Len(l.rows)
Has(l, c) == c \in l.cols
Abs(a) == IF a < 0 THEN -a ELSE a

\* Series.dt.dayofweek: Monday is 0; the epoch is a Monday.
DayOfWeek(d) == (d \div 2) % 7

\* The positions of l, in order, that belong to mask: df[mask].
Select(l, mask) ==
    LET F[k \in 0..N(l)] ==
            IF k = 0 THEN <<>>
            ELSE IF k \in mask THEN Append(F[k - 1], k) ELSE F[k - 1]
    IN F[N(l)]

SumOver(l, mask) ==
    LET F[k \in 0..N(l)] ==
            IF k = 0 THEN 0
            ELSE IF k \in mask THEN F[k - 1] + l.rows[k].amount ELSE F[k - 1]
    IN F[N(l)]

(***************************************************************************)
(* The rule catalogue.  A standard is the sequence of its characters; a    *)
(* hyphen in a standard or a clause stands for the non-breaking hyphen     *)
(* U+2011 of the source.                                                   *)
(***************************************************************************)
Chars_IFRS == <<"I", "F", "R", "S">>
Chars_USGAAP == <<"U", "S", "-", "G", "A", "A", "P">>
Chars_ISA == <<"I", "S", "A">>
Chars_PakistanFBR == <<"P", "a", "k", "i", "s", "t", "a", "n", " ", "F", "B", "R">>

Rule(id, standard, clause, description, severity) ==
    [id |-> id, standard |-> standard, clause |-> clause,
     description |-> description, severity |-> severity]

build_catalogue ==
    << Rule("IFRS15_NEGREV", Chars_IFRS \o <<"-", "1", "5">>, "9",
            "Revenue recorded as negative", "High"),
       Rule("IFRS16_LEASE_DESC", Chars_IFRS \o <<"-", "1", "6">>, "24",
            "Potential lease expenses found", "Med"),
       Rule("ASC606_UNEARNED", Chars_USGAAP \o <<" ", "A", "S", "C", "-", "6", "0", "6">>, "45-1",
            "Line item indicates unearned revenue", "Med"),
       Rule("GAAP_RND_NUMBERS", Chars_USGAAP, "240",
            "Rounded amounts indicating potential fraud", "High"),
       Rule("ISA240_ROUNDED", Chars_ISA \o <<"-", "2", "4", "0">>, "32(a)",
            "Rounded cash withdrawals > 20,000", "High"),
       Rule("ISA500_MISSING_DESC", Chars_ISA \o <<"-", "5", "0", "0">>, "A12",
            "Transactions missing descriptions", "High"),
       Rule("ISA530_SAME_AMOUNT_DUPES", Chars_ISA \o <<"-", "5", "3", "0">>, "B9",
            "Duplicate amounts with same description", "Med"),
       Rule("PK_FBR_500K", Chars_PakistanFBR, "SRO-586(2017)",
            "Single payment > 500,000 must be documented", "Med"),
       Rule("PK_FBR_WEEKEND_TXNS", Chars_PakistanFBR, "2022 Circular",
            "Transactions recorded on weekends", "Low"),
       Rule("MAT_EXP_5PCT", Chars_ISA \o <<"-", "3", "2", "0">>, "10",
            "Single expense >5 % of total revenue", "Low") >>

RuleIds == { build_catalogue[k].id : k \in 1..Len(build_catalogue) }

RoundUnit == 1000
RoundedFloor == 20000
FbrThreshold == 500000
MatPercent == 5

(***************************************************************************)
(* What pandas raises when a rule touches the ledger.  "" is no error.     *)
(***************************************************************************)
NoAttr(c) == "'DataFrame' object has no attribute '" \o c \o "'"
StrAccessorMsg == "Can only use .str accessor with string values!"

\* df.<c>: AttributeError when the column is absent.
GetAttrErr(l, c) == IF Has(l, c) THEN "" ELSE NoAttr(c)

\* df.description.str: the accessor refuses a float64 column.
StrErr(l) ==
    IF ~Has(l, "description") THEN NoAttr("description")
    ELSE IF l.descDtype = "float64" THEN StrAccessorMsg
    ELSE ""

\* df.duplicated(subset=["amount", "description"]): KeyError of the absent ones.
DupSubsetErr(l) ==
    CASE ~Has(l, "amount") /\ ~Has(l, "description") ->
             "Index(['amount', 'description'], dtype='object')"
      [] ~Has(l, "amount") /\ Has(l, "description") -> "Index(['amount'], dtype='object')"
      [] Has(l, "amount") /\ ~Has(l, "description") -> "Index(['description'], dtype='object')"
      [] OTHER -> ""

\* df["amount"]: KeyError('amount').
GetItemErr(l, c) == IF Has(l, c) THEN "" ELSE "'" \o c \o "'"

\* The error of the expression both the check and the sample of a rule evaluate.
RuleErr(id, l) ==
    CASE id = "IFRS15_NEGREV" -> GetAttrErr(l, "amount")
      [] id = "IFRS16_LEASE_DESC" -> StrErr(l)
      [] id = "ASC606_UNEARNED" -> StrErr(l)
      [] id = "GAAP_RND_NUMBERS" -> GetAttrErr(l, "amount")
      [] id = "ISA240_ROUNDED" -> GetAttrErr(l, "amount")
      [] id = "ISA500_MISSING_DESC" -> GetAttrErr(l, "description")
      [] id = "ISA530_SAME_AMOUNT_DUPES" -> DupSubsetErr(l)
      [] id = "PK_FBR_500K" -> GetItemErr(l, "amount")
      [] id = "PK_FBR_WEEKEND_TXNS" -> GetAttrErr(l, "date")
      [] id = "MAT_EXP_5PCT" -> GetAttrErr(l, "amount")

(***************************************************************************)
(* The row conditions of the rules.                                        *)
(***************************************************************************)
Amt(l, k) == l.rows[k].amount
Desc(l, k) == l.rows[k].description

\* str.contains(..., na=False): a missing description does not match.
DescContains(l, k, pat) == ~Desc(l, k).isna /\ ContainsNoCase(Desc(l, k).text, pat)

\* duplicated(subset=["amount", "description"], keep=False); NaN equals NaN.
SameAmountDesc(l, k) ==
    \E j \in 1..N(l) : j # k /\ Amt(l, j) = Amt(l, k) /\ Desc(l, j) = Desc(l, k)

Revenue(l) == SumOver(l, {k \in 1..N(l) : Amt(l, k) > 0})

\* A variant whose comparison is not strict.
OverMaterialityAtLeast(l, k) == 100 * Abs(Amt(l, k)) >= MatPercent * Revenue(l)

\* abs(amount) > 0.05 * revenue, in integers.
OverMateriality(l, k) == 100 * Abs(Amt(l, k)) > MatPercent * Revenue(l)

\* A variant that looks at money coming in only.
RoundedSignedInflow(l, k) ==
    Amt(l, k) > 0 /\ Amt(l, k) % RoundUnit = 0 /\ Abs(Amt(l, k)) > RoundedFloor

\* (df.amount % 1000 == 0) & (abs(df.amount) > 20000): the remainder of the
\* signed amount, which Python takes in 0..999 as TLA+ does.
RoundedSigned(l, k) == Amt(l, k) % RoundUnit = 0 /\ Abs(Amt(l, k)) > RoundedFloor
RoundedCashOut(l, k) ==
    Amt(l, k) < 0 /\ Abs(Amt(l, k)) % RoundUnit = 0 /\ Abs(Amt(l, k)) > RoundedFloor
DescMissing(l, k) == Desc(l, k).isna \/ Desc(l, k) = Text(<<>>)
Weekend(l, k) == DayOfWeek(l.rows[k].date) \in {5, 6}

\* A variant whose IFRS15_NEGREV check looks for a negative amount anywhere.
CheckAnyNegative(id, l) ==
    CASE id = "IFRS15_NEGREV" -> \E k \in 1..N(l) : Amt(l, k) < 0
      [] id = "IFRS16_LEASE_DESC" -> \E k \in 1..N(l) : DescContains(l, k, LeaseWord)
      [] id = "ASC606_UNEARNED" -> \E k \in 1..N(l) : DescContains(l, k, UnearnedWord)
      [] id = "GAAP_RND_NUMBERS" -> \E k \in 1..N(l) : RoundedSigned(l, k)
      [] id = "ISA240_ROUNDED" -> \E k \in 1..N(l) : RoundedCashOut(l, k)
      [] id = "ISA500_MISSING_DESC" ->
             \/ \E k \in 1..N(l) : Desc(l, k).isna
             \/ \E k \in 1..N(l) : Desc(l, k) = Text(<<>>)
      [] id = "ISA530_SAME_AMOUNT_DUPES" -> \E k \in 1..N(l) : SameAmountDesc(l, k)
      [] id = "PK_FBR_500K" -> \E k \in 1..N(l) : Abs(Amt(l, k)) > FbrThreshold
      [] id = "PK_FBR_WEEKEND_TXNS" -> \E k \in 1..N(l) : Weekend(l, k)
      [] id = "MAT_EXP_5PCT" ->
             Select(l, {k \in 1..N(l) : Amt(l, k) < 0 /\ OverMateriality(l, k)}) # <<>>

\* A variant whose ISA500_MISSING_DESC check looks for null descriptions only.
CheckNullOnly(id, l) ==
    CASE id = "IFRS15_NEGREV" ->
             LET pos == Select(l, {k \in 1..N(l) : Amt(l, k) > 0})
             IN \E j \in 1..Len(pos) : Amt(l, pos[j]) < 0
      [] id = "IFRS16_LEASE_DESC" -> \E k \in 1..N(l) : DescContains(l, k, LeaseWord)
      [] id = "ASC606_UNEARNED" -> \E k \in 1..N(l) : DescContains(l, k, UnearnedWord)
      [] id = "GAAP_RND_NUMBERS" -> \E k \in 1..N(l) : RoundedSigned(l, k)
      [] id = "ISA240_ROUNDED" -> \E k \in 1..N(l) : RoundedCashOut(l, k)
      [] id = "ISA500_MISSING_DESC" -> \E k \in 1..N(l) : Desc(l, k).isna
      [] id = "ISA530_SAME_AMOUNT_DUPES" -> \E k \in 1..N(l) : SameAmountDesc(l, k)
      [] id = "PK_FBR_500K" -> \E k \in 1..N(l) : Abs(Amt(l, k)) > FbrThreshold
      [] id = "PK_FBR_WEEKEND_TXNS" -> \E k \in 1..N(l) : Weekend(l, k)
      [] id = "MAT_EXP_5PCT" ->
             Select(l, {k \in 1..N(l) : Amt(l, k) < 0 /\ OverMateriality(l, k)}) # <<>>

\* rule.check(df), for a ledger on which the rule does not raise.
check(id, l) ==
    CASE id = "IFRS15_NEGREV" ->
             LET pos == Select(l, {k \in 1..N(l) : Amt(l, k) > 0})
             IN \E j \in 1..Len(pos) : Amt(l, pos[j]) < 0
      [] id = "IFRS16_LEASE_DESC" -> \E k \in 1..N(l) : DescContains(l, k, LeaseWord)
      [] id = "ASC606_UNEARNED" -> \E k \in 1..N(l) : DescContains(l, k, UnearnedWord)
      [] id = "GAAP_RND_NUMBERS" -> \E k \in 1..N(l) : RoundedSigned(l, k)
      [] id = "ISA240_ROUNDED" -> \E k \in 1..N(l) : RoundedCashOut(l, k)
      [] id = "ISA500_MISSING_DESC" ->
             \/ \E k \in 1..N(l) : Desc(l, k).isna
             \/ \E k \in 1..N(l) : Desc(l, k) = Text(<<>>)
      [] id = "ISA530_SAME_AMOUNT_DUPES" -> \E k \in 1..N(l) : SameAmountDesc(l, k)
      [] id = "PK_FBR_500K" -> \E k \in 1..N(l) : Abs(Amt(l, k)) > FbrThreshold
      [] id = "PK_FBR_WEEKEND_TXNS" -> \E k \in 1..N(l) : Weekend(l, k)
      [] id = "MAT_EXP_5PCT" ->
             Select(l, {k \in 1..N(l) : Amt(l, k) < 0 /\ OverMateriality(l, k)}) # <<>>

\* rule.sample(df): the positions of the sampled rows.
sample(id, l) ==
    CASE id = "IFRS15_NEGREV" -> Select(l, {k \in 1..N(l) : Amt(l, k) > 0 /\ Amt(l, k) < 0})
      [] id = "IFRS16_LEASE_DESC" -> Select(l, {k \in 1..N(l) : DescContains(l, k, LeaseWord)})
      [] id = "ASC606_UNEARNED" -> Select(l, {k \in 1..N(l) : DescContains(l, k, UnearnedWord)})
      [] id = "GAAP_RND_NUMBERS" -> Select(l, {k \in 1..N(l) : RoundedSigned(l, k)})
      [] id = "ISA240_ROUNDED" -> Select(l, {k \in 1..N(l) : RoundedCashOut(l, k)})
      [] id = "ISA500_MISSING_DESC" -> Select(l, {k \in 1..N(l) : DescMissing(l, k)})
      [] id = "ISA530_SAME_AMOUNT_DUPES" -> Select(l, {k \in 1..N(l) : SameAmountDesc(l, k)})
      [] id = "PK_FBR_500K" -> Select(l, {k \in 1..N(l) : Abs(Amt(l, k)) > FbrThreshold})
      [] id = "PK_FBR_WEEKEND_TXNS" -> Select(l, {k \in 1..N(l) : Weekend(l, k)})
      [] id = "MAT_EXP_5PCT" -> Select(l, {k \in 1..N(l) : Amt(l, k) < 0 /\ OverMateriality(l, k)})

(***************************************************************************)
(* The legal knowledge base.  compliance_rules.json maps ids to entries;   *)
(* which ids it holds is data, so the model starts from several choices.   *)
(***************************************************************************)
KbEntry(id) ==
    [id |-> id, law_standard |-> "Law " \o id, jurisdiction |-> "Jurisdiction " \o id,
     description |-> "About " \o id, applicability |-> "Applies " \o id,
     automatable |-> TRUE]

KbKeySets ==
    { {},
      {"IFRS16_LEASE_DESC", "GAAP_RND_NUMBERS", "ISA500_MISSING_DESC",
       "PK_FBR_500K", "ISO_27001"} }

LoadKb(ids) == [id \in ids |-> KbEntry(id)]

\* LAW_KB.get(rule.id): the entry, or None.
KbGet(kb, id) == IF id \in DOMAIN kb THEN <<kb[id]>> ELSE <<>>

(***************************************************************************)
(* evaluate(df).                                                           *)
(***************************************************************************)
\* A variant that drops the message of the exception.
EngineErrorDetailNoMessage(msg) == "[Engine Error] "

EngineErrorDetail(msg) == "[Engine Error] " \o msg

\* A variant with the test on rows.empty inverted.
OffendingDetailInverted(rows) ==
    IF Len(rows) = 0 THEN ToString(Len(rows)) \o " offending rows" ELSE "Breach detected"

OffendingDetail(rows) ==
    IF Len(rows) # 0 THEN ToString(Len(rows)) \o " offending rows" ELSE "Breach detected"

BaseFinding(rule, detail) ==
    [Rule |-> rule.id, Standard |-> rule.standard, Clause |-> rule.clause,
     Severity |-> rule.severity, Detail |-> detail]

\* if kb: finding.update({...})
Enrich(finding, kbHit) ==
    IF kbHit # <<>>
    THEN [LawStandard |-> kbHit[1].law_standard, Jurisdiction |-> kbHit[1].jurisdiction,
          LawDescription |-> kbHit[1].description,
          Applicability |-> kbHit[1].applicability] @@ finding
    ELSE finding

\* Both lambdas of a rule evaluate the same expression over the ledger.
CheckErr(id, l) == RuleErr(id, l)
SampleErr(id, l) == RuleErr(id, l)

\* The error caught by the except clause for this rule, "" when none.
Caught(rule, l) ==
    IF CheckErr(rule.id, l) # "" THEN CheckErr(rule.id, l)
    ELSE IF check(rule.id, l) THEN SampleErr(rule.id, l)
    ELSE ""

\* A variant that appends the finding inside "if kb:" only.
RuleFindingsInsideIfKb(rule, l, kb) ==
    LET kbHit == KbGet(kb, rule.id)
    IN IF kbHit = <<>> THEN <<>>
       ELSE IF Caught(rule, l) # ""
       THEN << Enrich(BaseFinding(rule, EngineErrorDetail(Caught(rule, l))), kbHit) >>
       ELSE IF check(rule.id, l)
       THEN << Enrich(BaseFinding(rule, OffendingDetail(sample(rule.id, l))), kbHit) >>
       ELSE <<>>

\* A variant whose except clause does not enrich the finding.
RuleFindingsBareError(rule, l, kb) ==
    LET kbHit == KbGet(kb, rule.id)
    IN IF Caught(rule, l) # ""
       THEN << BaseFinding(rule, EngineErrorDetail(Caught(rule, l))) >>
       ELSE IF check(rule.id, l)
       THEN << Enrich(BaseFinding(rule, OffendingDetail(sample(rule.id, l))), kbHit) >>
       ELSE <<>>

\* The body of the for loop for one rule: the findings it appends.
RuleFindings(rule, l, kb) ==
    LET kbHit == KbGet(kb, rule.id)
    IN IF Caught(rule, l) # ""
       THEN << Enrich(BaseFinding(rule, EngineErrorDetail(Caught(rule, l))), kbHit) >>
       ELSE IF check(rule.id, l)
       THEN << Enrich(BaseFinding(rule, OffendingDetail(sample(rule.id, l))), kbHit) >>
       ELSE <<>>

\* A variant with the try around the whole loop: an exception ends it.
LoopNextAbort(k, raised) == IF raised THEN Len(build_catalogue) + 1 ELSE k + 1

\* Where the loop goes after a rule: the except clause is inside the loop.
LoopNext(k, raised) == k + 1

\* A variant in which a finding of High severity silences the rule after it.
AppendUnlessAfterHigh(fs, new) ==
    IF fs # <<>> /\ fs[Len(fs)].Severity = "High" THEN fs ELSE fs \o new

\* A variant that puts the finding at the front of the list.
PrependFindings(fs, new) == new \o fs

\* findings.append(finding), when the rule gave one.
AppendFindings(fs, new) == fs \o new

\* catalogue = build_catalogue(); findings = []: a call starts afresh, also
\* when the same ledger is evaluated again.
EvaluateCall ==
    /\ \/ pc = "idle"
       \/ pc = "returned" /\ op = "evaluate" /\ calls < MaxCalls
    /\ pc' = "evaluate"
    /\ op' = "evaluate"
    /\ catalogue' = build_catalogue
    /\ prev' = findings
    /\ findings' = <<>>
    /\ ruleIdx' = 1
    /\ checked' = {}
    /\ calls' = calls + 1
    /\ UNCHANGED <<df, LAW_KB, sideVars, exc, audit, red_flags, scoreVars, appVars>>

EvaluateRule ==
    /\ pc = "evaluate"
    /\ ruleIdx <= Len(catalogue)
    /\ LET rule == catalogue[ruleIdx]
       IN /\ findings' = AppendFindings(findings, RuleFindings(rule, df, LAW_KB))
          /\ checked' = checked \cup {rule.id}
          /\ ruleIdx' = LoopNext(ruleIdx, Caught(rule, df) # "")
    /\ UNCHANGED <<df, LAW_KB, sideVars, pc, op, exc, catalogue, calls, prev,
                   audit, red_flags, scoreVars, appVars>>

EvaluateReturn ==
    /\ pc = "evaluate"
    /\ ruleIdx > Len(catalogue)
    /\ pc' = "returned"
    /\ UNCHANGED <<df, LAW_KB, sideVars, op, exc, evalVars,
                   audit, red_flags, scoreVars, appVars>>

(***************************************************************************)
(* Exact comparison of wide naturals, for the outlier test on amounts      *)
(* whose squares do not fit a machine word: five limbs in base 10000,      *)
(* least significant first.                                                *)
(***************************************************************************)
WNorm(w) ==
    LET c[k \in 0..5] == IF k = 0 THEN 0 ELSE (w[k] + c[k - 1]) \div 10000
    IN [k \in 1..5 |-> (w[k] + c[k - 1]) % 10000]

WZero == <<0, 0, 0, 0, 0>>
WSquare(d) ==
    LET lo == Abs(d) % 10000
        hi == Abs(d) \div 10000
    IN WNorm(<<lo * lo, 2 * lo * hi, hi * hi, 0, 0>>)
WScale(w, m) == WNorm([k \in 1..5 |-> w[k] * m])
WAdd(u, v) == WNorm([k \in 1..5 |-> u[k] + v[k]])
WGreater(u, v) == \E k \in 1..5 : u[k] > v[k] /\ \A j \in (k + 1)..5 : u[j] = v[j]

(***************************************************************************)
(* run_audit(df).  A table is the sequence of the positions of its rows.   *)
(***************************************************************************)
GapDays == 30
SigmaFactor == 3

\* A variant with keep="first": the first row of a group is not marked.
DuplicatedKeepFirst(l, k) == \E j \in 1..N(l) : j < k /\ l.rows[j] = l.rows[k]

\* df.duplicated(subset=["date", "description", "amount"], keep=False)
DuplicatedKeepAll(l, k) == \E j \in 1..N(l) : j # k /\ l.rows[j] = l.rows[k]

\* df.sort_values("date"): the positions in ascending date order, ties in
\* ledger order.
SortedPositions(l) ==
    LET Ins(sq, k) ==
            LET before == { j \in 1..Len(sq) : l.rows[sq[j]].date <= l.rows[k].date }
                m == Cardinality(before)
            IN SubSeq(sq, 1, m) \o <<k>> \o SubSeq(sq, m + 1, Len(sq))
        F[k \in 0..N(l)] == IF k = 0 THEN <<>> ELSE Ins(F[k - 1], k)
    IN F[N(l)]

\* df_sorted[df_sorted["date"].diff().dt.days > 30]; .dt.days is the whole days.
GapRows(l) ==
    LET sp == SortedPositions(l)
        far(j) == j > 1 /\ (l.rows[sp[j]].date - l.rows[sp[j - 1]].date) \div 2 > GapDays
        F[j \in 0..Len(sp)] ==
            IF j = 0 THEN <<>>
            ELSE IF far(j) THEN Append(F[j - 1], sp[j]) ELSE F[j - 1]
    IN F[Len(sp)]

Total(l) == SumOver(l, {k \in 1..N(l) : TRUE})

\* Sum over the ledger of (n * amount - total)^2, that is n^2 (n-1) sd^2 with
\* sd = Series.std(), the sample standard deviation (ddof = 1).
SquaredDeviations(l) ==
    LET F[k \in 0..N(l)] ==
            IF k = 0 THEN WZero
            ELSE WAdd(F[k - 1], WSquare(N(l) * Amt(l, k) - Total(l)))
    IN F[N(l)]

\* (amount > mu + 3*sd) | (amount < mu - 3*sd); sd is NaN for fewer than two
\* rows, and every comparison with NaN is false.
Outlier(l, k) ==
    /\ N(l) >= 2
    /\ WGreater(WScale(WSquare(N(l) * Amt(l, k) - Total(l)), N(l) - 1),
                WScale(SquaredDeviations(l), SigmaFactor * SigmaFactor))

NonEmpty(tables) == SelectSeq(tables, LAMBDA t : t # <<>>)

AuditIssues(l) ==
    NonEmpty(<< Select(l, {k \in 1..N(l) : DuplicatedKeepAll(l, k)}),
                GapRows(l),
                Select(l, {k \in 1..N(l) : Outlier(l, k)}) >>)

\* The first statement needs all three columns: KeyError of the absent ones.
RunAuditErr(l) == IF Required \subseteq l.cols THEN "" ELSE "KeyError"

\* The summary is modelled by the numbers it formats.
run_audit(l) ==
    [summary |-> [Txns |-> N(l),
                  Rev |-> SumOver(l, {k \in 1..N(l) : Amt(l, k) > 0}),
                  Exp |-> SumOver(l, {k \in 1..N(l) : Amt(l, k) < 0}),
                  Issues |-> Len(AuditIssues(l))],
     issues |-> AuditIssues(l)]

(***************************************************************************)
(* detect_red_flags(df).                                                   *)
(***************************************************************************)
IsSpace(c) == c \in {" ", "\t", "\n"}

\* str.strip()
Strip(t) ==
    LET keep == { k \in 1..Len(t) : ~IsSpace(t[k]) }
    IN IF keep = {} THEN <<>>
       ELSE LET a == CHOOSE k \in keep : \A j \in keep : k <= j
                b == CHOOSE k \in keep : \A j \in keep : k >= j
            IN SubSeq(t, a, b)

BlankDesc(l, k) == Desc(l, k).isna \/ Strip(Desc(l, k).text) = <<>>

\* d["date"], d.date, d.amount and d.description.str are reached in turn.
RedFlagsErr(l) ==
    IF ~Has(l, "date") THEN "KeyError"
    ELSE IF ~Has(l, "amount") THEN "AttributeError"
    ELSE IF StrErr(l) # "" THEN "AttributeError"
    ELSE ""

Flagged(label, rows) == [Flag |-> label, rows |-> rows]

\* d.date.dt.dayofweek >= 5
WeekendEntry(l, k) == DayOfWeek(l.rows[k].date) >= 5

\* A variant whose floor is not strict: abs(d.amount) >= 20000.
RoundedCashAtFloor(l, k) ==
    Amt(l, k) < 0 /\ Amt(l, k) % RoundUnit = 0 /\ Abs(Amt(l, k)) >= RoundedFloor

\* (d.amount < 0) & (d.amount % 1000 == 0) & (abs(d.amount) > 20000)
RoundedCash(l, k) ==
    Amt(l, k) < 0 /\ Amt(l, k) % RoundUnit = 0 /\ Abs(Amt(l, k)) > RoundedFloor

\* A variant that lists a row under the first detector it matches only.
DetectRedFlagsDeduplicated(l) ==
    SelectSeq(
        << Flagged("Weekend", Select(l, {k \in 1..N(l) : WeekendEntry(l, k)})),
           Flagged("Rounded cash",
                   Select(l, {k \in 1..N(l) : RoundedCash(l, k) /\ ~WeekendEntry(l, k)})),
           Flagged("Missing desc",
                   Select(l, {k \in 1..N(l) : /\ BlankDesc(l, k)
                                              /\ ~WeekendEntry(l, k)
                                              /\ ~RoundedCash(l, k)})) >>,
        LAMBDA t : t.rows # <<>>)

\* The tables that are not empty, in the order of the detectors; the rows of
\* a table keep their index labels and carry the Flag of the detector.
detect_red_flags(l) ==
    SelectSeq(
        << Flagged("Weekend", Select(l, {k \in 1..N(l) : WeekendEntry(l, k)})),
           Flagged("Rounded cash", Select(l, {k \in 1..N(l) : RoundedCash(l, k)})),
           Flagged("Missing desc", Select(l, {k \in 1..N(l) : BlankDesc(l, k)})) >>,
        LAMBDA t : t.rows # <<>>)

(***************************************************************************)
(* fraud_model.py.  The trained artifact is a file that exists or not; a   *)
(* classifier that was loaded either refuses the feature table or gives    *)
(* every row a probability, counted in 1/10000.  Risk is counted in        *)
(* tenths of a percent.                                                    *)
(***************************************************************************)
Artifacts == {"absent", "present"}
Classifiers == {"rejects", "flat", "by_amount"}

\* df["date"], df["amount"]
FeatureErr(l) == IF Has(l, "date") /\ Has(l, "amount") THEN "" ELSE "KeyError"

\* df["date"].min(): the earliest of the dates that parse.
MinDate(l) ==
    LET parsed == { l.rows[k].date : k \in (1..N(l)) \ l.nat }
    IN CHOOSE d \in parsed : \A e \in parsed : d <= e

FeatureNames == <<"Time", "Amount">> \o [k \in 1..28 |-> "V" \o ToString(k)]

\* A variant that counts Time from the date of the first row of the ledger.
FeatureDfFromFirstRow(l) ==
    [k \in 1..N(l) |->
        [f \in { FeatureNames[j] : j \in 1..Len(FeatureNames) } |->
            CASE f = "Time" ->
                     IF k \in l.nat \/ 1 \in l.nat THEN 0
                     ELSE (l.rows[k].date - l.rows[1].date) * 43200
              [] f = "Amount" -> IF k \in l.nan THEN 0 ELSE Abs(Amt(l, k))
              [] OTHER -> 0]]

\* One feature row per ledger row, under its index: Time in seconds since the
\* earliest date, Amount, V1..V28; fillna(0) where the date or the amount is
\* missing.
_feature_df(l) ==
    [k \in 1..N(l) |->
        [f \in { FeatureNames[j] : j \in 1..Len(FeatureNames) } |->
            CASE f = "Time" ->
                     IF k \in l.nat THEN 0 ELSE (l.rows[k].date - MinDate(l)) * 43200
              [] f = "Amount" -> IF k \in l.nan THEN 0 ELSE Abs(Amt(l, k))
              [] OTHER -> 0]]

\* model.predict_proba(features)[:, 1] of the classifiers of the model.
PredictProba(clf, feats) ==
    [k \in 1..Len(feats) |->
        CASE clf = "by_amount" -> IF feats[k]["Amount"] > RoundedFloor THEN 9995 ELSE 0
          [] OTHER -> 1238]

\* A variant that cuts the percentage after the first decimal.
RoundTenthDown(p) == p \div 10

\* (probabilities * 100).round(1): to the nearest tenth, halves to even.
RoundTenth(p) ==
    LET q == p \div 10
        r == p % 10
    IN IF r > 5 \/ (r = 5 /\ q % 2 = 1) THEN q + 1 ELSE q

\* A variant without the test on the model path: a missing artifact is scored
\* by a default classifier.
ScoreErrNoPathTest(l, artifact, clf) ==
    IF FeatureErr(l) # "" THEN FeatureErr(l)
    ELSE IF clf = "rejects" THEN "ValueError"
    ELSE ""

\* The exception score_transactions(df) raises, "" when it returns.
ScoreErr(l, artifact, clf) ==
    IF artifact = "absent" THEN "FileNotFoundError"
    ELSE IF FeatureErr(l) # "" THEN FeatureErr(l)
    ELSE IF clf = "rejects" THEN "ValueError"
    ELSE ""

\* features = _feature_df(df), reached when the artifact was found and loaded.
FeaturesBuilt(l, artifact) ==
    IF artifact = "present" /\ FeatureErr(l) = "" THEN <<_feature_df(l)>> ELSE <<>>

score_transactions(l, clf) ==
    LET p == PredictProba(clf, _feature_df(l))
    IN [k \in 1..N(l) |-> RoundTenth(p[k])]

\* shap_explain(df) raises the same way: exists, load, features, transform.
ShapErr(l, artifact, clf) == ScoreErr(l, artifact, clf)

(***************************************************************************)
(* llm_opinion(...): what the external generator does decides the text.    *)
(***************************************************************************)
Generators == {"answers", "silent", "exit_nonzero", "timeout", "not_installed"}

\* subprocess.run(..., timeout=20) without check=True: a generator that exits
\* with a non-zero status wrote its complaint to stderr and nothing to stdout,
\* and no exception is raised; res.stdout.strip() is returned.
llm_opinion(gen) ==
    CASE gen = "answers" -> "Opinion"
      [] gen = "silent" -> ""
      [] gen = "exit_nonzero" -> ""
      [] gen = "timeout" -> "[LLM error] Command timed out after 20 seconds"
      [] gen = "not_installed" -> "[LLM error] [Errno 2] No such file or directory: 'ollama'"

(***************************************************************************)
(* normalise_df(df) on canonical column names.                             *)
(***************************************************************************)
NormaliseErr(l) == IF Required \subseteq l.cols THEN "" ELSE "ValueError"

\* df.dropna(subset=["date", "amount"]), then sort_values("date") and
\* reset_index(drop=True).
normalise_df(l) ==
    LET kept == Select(l, {k \in 1..N(l) : k \notin l.nat \cup l.nan})
        d == [l EXCEPT !.rows = [i \in 1..Len(kept) |-> l.rows[kept[i]]]]
        sp == SortedPositions(d)
    IN [cols |-> Required, rows |-> [k \in 1..N(d) |-> d.rows[sp[k]]],
        descDtype |-> l.descDtype, nat |-> {}, nan |-> {}]

(***************************************************************************)
(* normalise_df(df) on an upload.  A frame has named columns, in order,    *)
(* and a cell in every row for each of them.  A cell is modelled by what   *)
(* pd.to_datetime(errors="coerce") and pd.to_numeric(errors="coerce") make *)
(* of it (nothing when it does not parse) and by what it is as a           *)
(* description.  A column name is the sequence of its characters.          *)
(***************************************************************************)
Cell(d, a, s) == [date |-> d, amount |-> a, description |-> s]

\* [c.lower().strip() for c in df.columns]
LowerStrip(name) == Strip(LowerText(name))

\* A variant that does not strip the names.
CanonicalUnstripped(name) ==
    LET c == LowerText(name)
    IN CASE c \in { <<"t", "r", "a", "n", "s", "a", "c", "t", "i", "o", "n", "_", "d", "a", "t", "e">>,
                    <<"t", "r", "a", "n", "s", "_", "d", "a", "t", "e">> } ->
                <<"d", "a", "t", "e">>
         [] c \in { <<"d", "e", "t", "a", "i", "l", "s">>, <<"d", "e", "s", "c">> } ->
                <<"d", "e", "s", "c", "r", "i", "p", "t", "i", "o", "n">>
         [] c \in { <<"v", "a", "l", "u", "e">>, <<"a", "m", "t">> } ->
                <<"a", "m", "o", "u", "n", "t">>
         [] OTHER -> c

\* The name of a column after lower(), strip() and the alias table.
Canonical(name) ==
    LET c == LowerStrip(name)
    IN CASE c \in { <<"t", "r", "a", "n", "s", "a", "c", "t", "i", "o", "n", "_", "d", "a", "t", "e">>,
                    <<"t", "r", "a", "n", "s", "_", "d", "a", "t", "e">> } ->
                <<"d", "a", "t", "e">>
         [] c \in { <<"d", "e", "t", "a", "i", "l", "s">>, <<"d", "e", "s", "c">> } ->
                <<"d", "e", "s", "c", "r", "i", "p", "t", "i", "o", "n">>
         [] c \in { <<"v", "a", "l", "u", "e">>, <<"a", "m", "t">> } ->
                <<"a", "m", "o", "u", "n", "t">>
         [] OTHER -> c

RequiredNames ==
    [date        |-> <<"d", "a", "t", "e">>,
     description |-> <<"d", "e", "s", "c", "r", "i", "p", "t", "i", "o", "n">>,
     amount      |-> <<"a", "m", "o", "u", "n", "t">>]

\* df.loc[:, ~df.columns.duplicated()]: the first column of each name stays.
FirstColumn(frame, name) ==
    LET hits == { j \in 1..Len(frame.names) : Canonical(frame.names[j]) = name }
    IN IF hits = {} THEN 0 ELSE CHOOSE j \in hits : \A i \in hits : j <= i

\* if not {"date", "description", "amount"}.issubset(df.columns): raise ValueError
FrameErr(frame) ==
    IF \A c \in Required : FirstColumn(frame, RequiredNames[c]) # 0 THEN "" ELSE "ValueError"

\* df[["date", "description", "amount"]] with to_numeric and to_datetime
\* applied: the ledger whose rows still hold what did not parse.
Coerced(frame) ==
    LET dc == FirstColumn(frame, RequiredNames["date"])
        sc == FirstColumn(frame, RequiredNames["description"])
        ac == FirstColumn(frame, RequiredNames["amount"])
        n == Len(frame.rows)
    IN [cols |-> Required,
        rows |-> [k \in 1..n |->
                     Row(IF frame.rows[k][dc].date = <<>> THEN 0 ELSE frame.rows[k][dc].date[1],
                         frame.rows[k][sc].description,
                         IF frame.rows[k][ac].amount = <<>> THEN 0 ELSE frame.rows[k][ac].amount[1])],
        descDtype |-> "object",
        nat |-> { k \in 1..n : frame.rows[k][dc].date = <<>> },
        nan |-> { k \in 1..n : frame.rows[k][ac].amount = <<>> }]

(***************************************************************************)
(* The region filter of the audit page.                                    *)
(***************************************************************************)
Regions == {"Pakistan (FBR)", "US (GAAP)", "UK (IFRS)"}

\* A variant that files the UK under the auditing standards.
RegionMapUkIsa(r) ==
    CASE r = "Pakistan (FBR)" -> Chars_PakistanFBR
      [] r = "US (GAAP)" -> Chars_USGAAP
      [] r = "UK (IFRS)" -> Chars_ISA

region_map(r) ==
    CASE r = "Pakistan (FBR)" -> Chars_PakistanFBR
      [] r = "US (GAAP)" -> Chars_USGAAP
      [] r = "UK (IFRS)" -> Chars_IFRS

\* key in text
Contains(t, key) ==
    \E k \in 1..(Len(t) - Len(key) + 1) : SubSeq(t, k, k + Len(key) - 1) = key

\* A variant that consumes the key: a kept finding loses the region key at
\* the head of its Standard.
RegionFilterConsuming(fs, r) ==
    LET kept == SelectSeq(fs, LAMBDA c : Contains(c.Standard, region_map(r)))
    IN [i \in 1..Len(kept) |->
           [kept[i] EXCEPT !.Standard =
                SubSeq(@, Len(region_map(r)) + 1, Len(@))]]

\* [c for c in all_compliance if region_key in c.get("Standard", "")]
RegionFilter(fs, r) == SelectSeq(fs, LAMBDA c : Contains(c.Standard, region_map(r)))

\* evaluate(df) as a whole: the findings of the rules of cat, in turn.
RECURSIVE EvaluateAll(_, _, _)
EvaluateAll(cat, l, kb) ==
    IF cat = <<>> THEN <<>>
    ELSE RuleFindings(Head(cat), l, kb) \o EvaluateAll(Tail(cat), l, kb)

(***************************************************************************)
(* shap_natural_language_explanation(df, idx).  An attribution vector      *)
(* gives every feature a signed value, counted in 1/1000.                  *)
(***************************************************************************)
AttrThreshold == 10
TopN == 3

FeatureSet == { FeatureNames[j] : j \in 1..Len(FeatureNames) }

Attr(nonzero) == [f \in FeatureSet |-> IF f \in DOMAIN nonzero THEN nonzero[f] ELSE 0]

AttrVecs ==
    { Attr(<<>>),
      Attr([Amount |-> 500, Time |-> -20, V1 |-> 10, V5 |-> 5]),
      Attr([V7 |-> 300, V8 |-> -200, V9 |-> 100, Amount |-> 50]),
      Attr([Amount |-> 10, V2 |-> -9]),
      Attr([V3 |-> 40, Time |-> -40, V6 |-> 40, Amount |-> 40, V2 |-> 11]) }

\* sorted(contrib, key=lambda x: abs(x[1]), reverse=True): stable.
ContribSorted(a) ==
    LET Ins(sq, j) ==
            LET m == Cardinality({ i \in 1..Len(sq) :
                                     Abs(a[FeatureNames[sq[i]]]) >= Abs(a[FeatureNames[j]]) })
            IN SubSeq(sq, 1, m) \o <<j>> \o SubSeq(sq, m + 1, Len(sq))
        F[j \in 0..Len(FeatureNames)] == IF j = 0 THEN <<>> ELSE Ins(F[j - 1], j)
    IN [i \in 1..Len(FeatureNames) |-> FeatureNames[F[Len(FeatureNames)][i]]]

\* A variant that does not sort: the first three features of the table whose
\* attribution is over the threshold.
TopFeaturesInTableOrder(a) ==
    LET over == SelectSeq(FeatureNames, LAMBDA f : Abs(a[f]) > AttrThreshold)
    IN SubSeq(over, 1, IF Len(over) < TopN THEN Len(over) ELSE TopN)

\* [f for f, v in contrib_sorted[:3] if abs(v) > 0.01]
TopFeatures(a) ==
    SelectSeq(SubSeq(ContribSorted(a), 1, TopN), LAMBDA f : Abs(a[f]) > AttrThreshold)

feature_map(f) ==
    CASE f = "Amount" -> "large amount"
      [] f = "Time" -> "date anomaly"
      [] f = "V1" -> "unusual pattern (V1)"
      [] f = "V2" -> "unusual pattern (V2)"
      [] f = "V3" -> "unusual pattern (V3)"
      [] OTHER -> f

\* The exception of the explanation, "" when it returns; idx is a position.
ExplainErr(l, artifact, clf, idx) ==
    IF ShapErr(l, artifact, clf) # "" THEN ShapErr(l, artifact, clf)
    ELSE IF idx > N(l) THEN "IndexError"
    ELSE ""

\* The same for every ledger: computed once per attribution vector.
TopFeaturesOf == [a \in AttrVecs |-> TopFeatures(a)]

shap_natural_language_explanation(l, clf, a, idx) ==
    LET top == TopFeaturesOf[a]
    IN [risk |-> score_transactions(l, clf)[idx],
        dominant |-> top # <<>>,
        reasons |-> [i \in 1..Len(top) |-> feature_map(top[i])]]

(***************************************************************************)
(* The operations called one at a time on the ledger.                      *)
(***************************************************************************)
RunAuditCall ==
    /\ pc = "idle"
    /\ pc' = "returned"
    /\ op' = "run_audit"
    /\ IF RunAuditErr(df) # ""
       THEN exc' = RunAuditErr(df) /\ audit' = <<>>
       ELSE exc' = "" /\ audit' = <<run_audit(df)>>
    /\ UNCHANGED <<df, LAW_KB, sideVars, evalVars, red_flags, scoreVars, appVars>>

DetectRedFlagsCall ==
    /\ pc = "idle"
    /\ pc' = "returned"
    /\ op' = "detect_red_flags"
    /\ IF RedFlagsErr(df) # ""
       THEN exc' = RedFlagsErr(df) /\ red_flags' = <<>>
       ELSE exc' = "" /\ red_flags' = <<detect_red_flags(df)>>
    /\ UNCHANGED <<df, LAW_KB, sideVars, evalVars, audit, scoreVars, appVars>>

ScoreTransactionsCall ==
    /\ pc = "idle"
    /\ pc' = "returned"
    /\ op' = "score_transactions"
    /\ \E artifact \in Artifacts, clf \in Classifiers :
          /\ modelFile' = artifact
          /\ IF ScoreErr(df, artifact, clf) # ""
             THEN exc' = ScoreErr(df, artifact, clf) /\ scores' = <<>>
             ELSE exc' = "" /\ scores' = <<score_transactions(df, clf)>>
          /\ features' = FeaturesBuilt(df, artifact)
    /\ UNCHANGED <<df, LAW_KB, sideVars, evalVars, audit, red_flags, explanation, shap_values,
                   region, compliance, opinion, emitted>>

ExplainCall ==
    /\ pc = "idle"
    /\ pc' = "returned"
    /\ op' = "shap_natural_language_explanation"
    /\ \E artifact \in Artifacts, clf \in Classifiers, a \in AttrVecs, idx \in 1..(N(df) + 1) :
          /\ modelFile' = artifact
          /\ IF ExplainErr(df, artifact, clf, idx) # ""
             THEN /\ exc' = ExplainErr(df, artifact, clf, idx)
                  /\ explanation' = <<>>
                  /\ shap_values' = <<>>
             ELSE /\ exc' = ""
                  /\ explanation' = <<shap_natural_language_explanation(df, clf, a, idx)>>
                  /\ shap_values' = <<a>>
    /\ UNCHANGED <<df, LAW_KB, sideVars, evalVars, audit, red_flags, scores, features,
                   region, compliance, opinion, emitted>>

(***************************************************************************)
(* The audit flow of the page (app.py) on the combined upload.  An         *)
(* exception anywhere in it reaches the outer handler, which shows it.     *)
(* Before normalise_df the page stops on an upload without rows and gives  *)
(* the upload an amount column (copied from the column detected or picked  *)
(* as the amount), so the flow is entered with an amount column only.      *)
(***************************************************************************)
\* if df_raw is None or df_raw.empty ...: st.error(...); st.stop()
AppStopEmpty ==
    /\ pc = "idle"
    /\ N(df) = 0
    /\ op' = "app"
    /\ emitted' = Append(emitted, "error")
    /\ pc' = "app_done"
    /\ UNCHANGED <<df, LAW_KB, sideVars, exc, evalVars, audit, red_flags, scoreVars,
                   modelFile, region, compliance, opinion>>

AppRaise(e) ==
    /\ exc' = e
    /\ pc' = "app_except"

\* df = normalise_df(df_raw), with the region picked in the sidebar.
AppNormalise ==
    /\ pc = "idle"
    /\ N(df) > 0
    /\ Has(df, "amount")
    /\ op' = "app"
    /\ \E r \in Regions : region' = r
    /\ IF NormaliseErr(df) # ""
       THEN AppRaise(NormaliseErr(df)) /\ df' = df /\ emitted' = emitted
       ELSE /\ df' = normalise_df(df)
            /\ emitted' = Append(emitted, "ledger")
            /\ pc' = "app_audit"
            /\ exc' = ""
    /\ UNCHANGED <<LAW_KB, sideVars, evalVars, audit, red_flags, scoreVars,
                   modelFile, compliance, opinion>>

\* summary, issues = run_audit(df); red_flags = detect_red_flags(df)
AppRunAudit ==
    /\ pc = "app_audit"
    /\ IF RunAuditErr(df) # ""
       THEN AppRaise(RunAuditErr(df)) /\ UNCHANGED <<audit, red_flags>>
       ELSE /\ audit' = <<run_audit(df)>>
            /\ IF RedFlagsErr(df) # ""
               THEN AppRaise(RedFlagsErr(df)) /\ red_flags' = red_flags
               ELSE /\ red_flags' = <<detect_red_flags(df)>>
                    /\ pc' = "app_compliance"
                    /\ exc' = exc
    /\ UNCHANGED <<df, LAW_KB, sideVars, op, evalVars, scoreVars, modelFile,
                   region, compliance, opinion, emitted>>

\* all_compliance = compliance_checks(df), then the region filter.
AppCompliance ==
    /\ pc = "app_compliance"
    /\ compliance' = RegionFilter(EvaluateAll(build_catalogue, df, LAW_KB), region)
    /\ pc' = "app_emit"
    /\ UNCHANGED <<df, LAW_KB, sideVars, op, exc, evalVars, audit, red_flags, scoreVars,
                   modelFile, region, opinion, emitted>>

\* The summary, the key financials, the issue tables and the red-flag tables.
AppEmitSections ==
    /\ pc = "app_emit"
    /\ emitted' = emitted \o <<"summary", "key_financials", "issues", "red_flags">>
    /\ pc' = "app_scores"
    /\ UNCHANGED <<df, LAW_KB, sideVars, op, exc, evalVars, audit, red_flags, scoreVars,
                   modelFile, region, compliance, opinion>>

\* df_scores_disp = add_fraud_scores(df), then the risk table.
AppFraudScores ==
    /\ pc = "app_scores"
    /\ \E artifact \in Artifacts, clf \in Classifiers :
          /\ modelFile' = artifact
          /\ IF ScoreErr(df, artifact, clf) # ""
             THEN AppRaise(ScoreErr(df, artifact, clf)) /\ UNCHANGED <<scores, emitted>>
             ELSE /\ scores' = <<score_transactions(df, clf)>>
                  /\ emitted' = Append(emitted, "fraud_table")
                  /\ pc' = "app_opinion"
                  /\ exc' = exc
          /\ features' = FeaturesBuilt(df, artifact)
    /\ UNCHANGED <<df, LAW_KB, sideVars, op, evalVars, audit, red_flags, explanation, shap_values,
                   region, compliance, opinion>>

\* opinion = llm_opinion(summary, ratios, compliance, region=region)
AppOpinion ==
    /\ pc = "app_opinion"
    /\ \E gen \in Generators : generator' = gen /\ opinion' = <<llm_opinion(gen)>>
    /\ emitted' = Append(emitted, "opinion")
    /\ pc' = "app_statements"
    /\ UNCHANGED <<df, LAW_KB, normalised, op, exc, evalVars, audit, red_flags, scoreVars,
                   modelFile, region, compliance>>

\* The financial statements and the compliance flags.
AppStatements ==
    /\ pc = "app_statements"
    /\ emitted' = emitted \o <<"statements", "compliance_flags">>
    /\ pc' = "app_done"
    /\ UNCHANGED <<df, LAW_KB, sideVars, op, exc, evalVars, audit, red_flags, scoreVars,
                   modelFile, region, compliance, opinion>>

\* except Exception as e: st.exception(e)
AppHandler ==
    /\ pc = "app_except"
    /\ emitted' = Append(emitted, "exception")
    /\ pc' = "app_done"
    /\ UNCHANGED <<df, LAW_KB, sideVars, op, exc, evalVars, audit, red_flags, scoreVars,
                   modelFile, region, compliance, opinion>>

(***************************************************************************)
(* The specification.                                                      *)
(***************************************************************************)
Init ==
    /\ df \in { l \in Ledgers : WellTyped(l) }
    /\ LAW_KB \in { LoadKb(ids) : ids \in KbKeySets }
    /\ pc = "idle"
    /\ op = "none"
    /\ exc = ""
    /\ catalogue = <<>>
    /\ ruleIdx = 0
    /\ findings = <<>>
    /\ checked = {}
    /\ calls = 0
    /\ prev = <<>>
    /\ audit = <<>>
    /\ red_flags = <<>>
    /\ scores = <<>>
    /\ features = <<>>
    /\ explanation = <<>>
    /\ shap_values = <<>>
    /\ modelFile = "unknown"
    /\ region = "US (GAAP)"
    /\ compliance = <<>>
    /\ opinion = <<>>
    /\ generator = "none"
    /\ normalised = <<>>
    /\ emitted = <<>>

Next ==
    \/ EvaluateCall
    \/ EvaluateRule
    \/ EvaluateReturn
    \/ RunAuditCall
    \/ DetectRedFlagsCall
    \/ ScoreTransactionsCall
    \/ ExplainCall
    \/ AppStopEmpty
    \/ AppNormalise
    \/ AppRunAudit
    \/ AppCompliance
    \/ AppEmitSections
    \/ AppFraudScores
    \/ AppOpinion
    \/ AppStatements
    \/ AppHandler

Spec == Init /\ [][Next]_vars

(***************************************************************************)
(* Ledgers long enough for the outlier test of run_audit, which no row of  *)
(* a ledger of fewer than eleven rows can pass: BulkRows ordinary rows on  *)
(* consecutive days, alternately s under and s over zero, and one more     *)
(* row of amount x.  The rules are evaluated on them too: the spread 8000  *)
(* with the row of -2000 puts an expense at exactly 5% of the revenue, and *)
(* the spread 0 gives ledgers without revenue.                             *)
(***************************************************************************)
BulkRows == 10

Spreads == {0, 100, 1000, 5000, 8000, 20000}
Extremes == {-40000, -2000, 500, 2000, 3400, 40000, 170000, 600000}

BulkLedger(s, x) ==
    [cols |-> Required,
     rows |-> [k \in 1..(BulkRows + 1) |->
                  IF k <= BulkRows
                  THEN Row(2 * (k - 1), Text(<<"r", "e", "n", "t">>),
                           IF k % 2 = 0 THEN s ELSE -s)
                  ELSE Row(2 * BulkRows, Text(<<"f", "e", "e">>), x)],
     descDtype |-> "object", nat |-> {}, nan |-> {}]

BulkLedgers == { BulkLedger(s, x) : s \in Spreads, x \in Extremes }

InitBulk ==
    /\ df \in BulkLedgers
    /\ LAW_KB \in { LoadKb(ids) : ids \in KbKeySets }
    /\ pc = "idle"
    /\ op = "none"
    /\ exc = ""
    /\ catalogue = <<>>
    /\ ruleIdx = 0
    /\ findings = <<>>
    /\ checked = {}
    /\ calls = 0
    /\ prev = <<>>
    /\ audit = <<>>
    /\ red_flags = <<>>
    /\ scores = <<>>
    /\ features = <<>>
    /\ explanation = <<>>
    /\ shap_values = <<>>
    /\ modelFile = "unknown"
    /\ region = "US (GAAP)"
    /\ compliance = <<>>
    /\ opinion = <<>>
    /\ generator = "none"
    /\ normalised = <<>>
    /\ emitted = <<>>

NextBulk ==
    \/ RunAuditCall
    \/ DetectRedFlagsCall
    \/ EvaluateCall
    \/ EvaluateRule
    \/ EvaluateReturn

SpecBulk == InitBulk /\ [][NextBulk]_vars

(***************************************************************************)
(* Raw ledgers for the feature deriver of the scorer, which coerces the    *)
(* dates and fills what is missing: up to MaxRawRows rows, any of them     *)
(* with a date that does not parse or with a missing amount.               *)
(***************************************************************************)
MaxRawRows == 3

RawRowVals ==
    { Row(4,  Text(<<"r", "e", "n", "t">>), -500),
      Row(0,  Text(<<" ">>),                -25500),
      Row(71, NaN,                          600000) }

RawLedgers ==
    { [cols |-> Required, rows |-> rs, descDtype |-> "object", nat |-> t, nan |-> a] :
        rs \in UNION { [1..n -> RawRowVals] : n \in 0..MaxRawRows },
        t \in SUBSET (1..MaxRawRows), a \in SUBSET (1..MaxRawRows) }

InitRaw ==
    /\ df \in { l \in RawLedgers : l.nat \cup l.nan \subseteq 1..N(l) }
    /\ LAW_KB = LoadKb({})
    /\ pc = "idle"
    /\ op = "none"
    /\ exc = ""
    /\ catalogue = <<>>
    /\ ruleIdx = 0
    /\ findings = <<>>
    /\ checked = {}
    /\ calls = 0
    /\ prev = <<>>
    /\ audit = <<>>
    /\ red_flags = <<>>
    /\ scores = <<>>
    /\ features = <<>>
    /\ explanation = <<>>
    /\ shap_values = <<>>
    /\ modelFile = "unknown"
    /\ region = "US (GAAP)"
    /\ compliance = <<>>
    /\ opinion = <<>>
    /\ generator = "none"
    /\ normalised = <<>>
    /\ emitted = <<>>

NextRaw == ScoreTransactionsCall

SpecRaw == InitRaw /\ [][NextRaw]_vars

(***************************************************************************)
(* Uploads for normalise_df: up to MaxFrameCols columns taken from six     *)
(* (two that become date, two that become amount, one that becomes         *)
(* description and one that stays as it is, in any order) and up to        *)
(* MaxFrameRows rows, some with cells that do not parse.                   *)
(***************************************************************************)
MaxFrameCols == 4
MaxFrameRows == 2

\* A date text, a number (to_datetime reads a number as an offset from
\* 1970-01-01, 39446 half days before the epoch of the model), a text that
\* is neither, and an empty cell.
DateCell(d) == Cell(<<d>>, <<>>, Text(<<"d">>))
NumCell(a) == Cell(<<-39446>>, <<a>>, NaN)
JunkCell == Cell(<<>>, <<>>, Text(<<"x">>))
EmptyCell == Cell(<<>>, <<>>, NaN)
TextCell(t) == Cell(<<>>, <<>>, Text(t))

FrameColumns ==
    { [name |-> <<"D", "a", "t", "e">>, holds |-> "d1"],
      [name |-> <<"t", "r", "a", "n", "s", "_", "d", "a", "t", "e">>, holds |-> "d2"],
      [name |-> <<" ", "A", "m", "o", "u", "n", "t">>, holds |-> "a1"],
      [name |-> <<"A", "M", "T">>, holds |-> "a2"],
      [name |-> <<"D", "e", "t", "a", "i", "l", "s">>, holds |-> "t1"],
      [name |-> <<"m", "e", "m", "o">>, holds |-> "t2"] }

FrameRecords ==
    { [d1 |-> DateCell(4), d2 |-> DateCell(0), a1 |-> NumCell(-500), a2 |-> NumCell(7),
       t1 |-> TextCell(<<"r", "e", "n", "t">>), t2 |-> EmptyCell],
      [d1 |-> DateCell(0), d2 |-> JunkCell, a1 |-> NumCell(30000), a2 |-> EmptyCell,
       t1 |-> EmptyCell, t2 |-> TextCell(<<" ">>)],
      [d1 |-> JunkCell, d2 |-> DateCell(2), a1 |-> JunkCell, a2 |-> NumCell(5),
       t1 |-> TextCell(<<>>), t2 |-> TextCell(<<"f", "e", "e">>)],
      [d1 |-> DateCell(4), d2 |-> DateCell(6), a1 |-> NumCell(-500), a2 |-> NumCell(8),
       t1 |-> TextCell(<<"r", "e", "n", "t">>), t2 |-> TextCell(<<"f", "e", "e">>)] }

ColumnLists ==
    { cs \in UNION { [1..n -> FrameColumns] : n \in 0..MaxFrameCols } :
        \A i, j \in 1..Len(cs) : i # j => cs[i] # cs[j] }

Frame(cs, recs) ==
    [names |-> [j \in 1..Len(cs) |-> cs[j].name],
     rows |-> [k \in 1..Len(recs) |-> [j \in 1..Len(cs) |-> recs[k][cs[j].holds]]]]

Frames ==
    { Frame(cs, recs) :
        cs \in ColumnLists, recs \in UNION { [1..n -> FrameRecords] : n \in 0..MaxFrameRows } }

\* normalise_df(df) called on an upload.
NormaliseCall ==
    /\ pc = "idle"
    /\ pc' = "returned"
    /\ op' = "normalise_df"
    /\ IF FrameErr(df) # ""
       THEN exc' = FrameErr(df) /\ normalised' = <<>>
       ELSE exc' = "" /\ normalised' = <<normalise_df(Coerced(df))>>
    /\ UNCHANGED <<df, LAW_KB, generator, evalVars, audit, red_flags, scoreVars, appVars>>

InitNorm ==
    /\ df \in Frames
    /\ LAW_KB = LoadKb({})
    /\ pc = "idle"
    /\ op = "none"
    /\ exc = ""
    /\ catalogue = <<>>
    /\ ruleIdx = 0
    /\ findings = <<>>
    /\ checked = {}
    /\ calls = 0
    /\ prev = <<>>
    /\ audit = <<>>
    /\ red_flags = <<>>
    /\ scores = <<>>
    /\ features = <<>>
    /\ explanation = <<>>
    /\ shap_values = <<>>
    /\ modelFile = "unknown"
    /\ region = "US (GAAP)"
    /\ compliance = <<>>
    /\ opinion = <<>>
    /\ generator = "none"
    /\ normalised = <<>>
    /\ emitted = <<>>

NextNorm == NormaliseCall

SpecNorm == InitNorm /\ [][NextNorm]_vars

(***************************************************************************)
(* The loop of evaluate() over other catalogues: the rules of              *)
(* build_catalogue() in another order, or some of them only.  The ledgers  *)
(* are short; on those that lack a column, or whose descriptions are all   *)
(* missing, some of the rules raise.                                       *)
(***************************************************************************)
MaxOrderRows == 1

OrderLedgers == { l \in Ledgers : WellTyped(l) /\ N(l) <= MaxOrderRows }

Reversed(cat) == [i \in 1..Len(cat) |-> cat[Len(cat) + 1 - i]]
Rotated(cat, n) == SubSeq(cat, n + 1, Len(cat)) \o SubSeq(cat, 1, n)
Dropped(cat, k) == SubSeq(cat, 1, k - 1) \o SubSeq(cat, k + 1, Len(cat))

CatalogueVariants ==
    {build_catalogue, Reversed(build_catalogue), Rotated(build_catalogue, 4)}
        \cup { Dropped(build_catalogue, k) : k \in 1..Len(build_catalogue) }
        \cup { Dropped(Reversed(build_catalogue), k) : k \in 1..Len(build_catalogue) }
        \cup { <<build_catalogue[k]>> : k \in 1..Len(build_catalogue) }

\* evaluate(df) with the catalogue it iterates over replaced by a variant.
EvaluateVariantCall ==
    /\ pc = "idle"
    /\ pc' = "evaluate"
    /\ op' = "evaluate"
    /\ \E cat \in CatalogueVariants : catalogue' = cat
    /\ prev' = findings
    /\ findings' = <<>>
    /\ ruleIdx' = 1
    /\ checked' = {}
    /\ calls' = calls + 1
    /\ UNCHANGED <<df, LAW_KB, sideVars, exc, audit, red_flags, scoreVars, appVars>>

InitOrder ==
    /\ df \in OrderLedgers
    /\ LAW_KB \in { LoadKb(ids) : ids \in KbKeySets }
    /\ pc = "idle"
    /\ op = "none"
    /\ exc = ""
    /\ catalogue = <<>>
    /\ ruleIdx = 0
    /\ findings = <<>>
    /\ checked = {}
    /\ calls = 0
    /\ prev = <<>>
    /\ audit = <<>>
    /\ red_flags = <<>>
    /\ scores = <<>>
    /\ features = <<>>
    /\ explanation = <<>>
    /\ shap_values = <<>>
    /\ modelFile = "unknown"
    /\ region = "US (GAAP)"
    /\ compliance = <<>>
    /\ opinion = <<>>
    /\ generator = "none"
    /\ normalised = <<>>
    /\ emitted = <<>>

NextOrder ==
    \/ EvaluateVariantCall
    \/ EvaluateRule
    \/ EvaluateReturn

SpecOrder == InitOrder /\ [][NextOrder]_vars

(***************************************************************************)
(* The operations on one ledger in any order and interleaved: while        *)
(* evaluate() is idle, in its loop or back, run_audit, detect_red_flags    *)
(* and add_fraud_scores are called on the same ledger, each as a whole,    *)
(* and evaluate() is called again after it returned.  An operation that    *)
(* raises leaves no result.                                                *)
(***************************************************************************)
\* The name of the column, whose blanks are narrow no-break spaces (U+202F).
FraudRiskColumn == "Fraud Risk %"

\* A variant of add_fraud_scores without df = df.copy(): the column is
\* assigned on the frame of the caller.
ArgumentScoredInPlace(l) == [l EXCEPT !.cols = @ \cup {FraudRiskColumn}]

\* The frame of the caller after add_fraud_scores(df): df = df.copy() rebinds
\* the local name, and the column is assigned on the copy.
ArgumentAfterScoring(l) == l

RunAuditAlongside ==
    /\ audit' = IF RunAuditErr(df) # "" THEN <<>> ELSE <<run_audit(df)>>
    /\ UNCHANGED <<df, LAW_KB, sideVars, pc, op, exc, evalVars, red_flags, scoreVars, appVars>>

DetectRedFlagsAlongside ==
    /\ red_flags' = IF RedFlagsErr(df) # "" THEN <<>> ELSE <<detect_red_flags(df)>>
    /\ UNCHANGED <<df, LAW_KB, sideVars, pc, op, exc, evalVars, audit, scoreVars, appVars>>

\* df = df.copy(); df["Fraud Risk %"] = score_transactions(df); return df
AddFraudScoresAlongside ==
    /\ \E artifact \in Artifacts, clf \in Classifiers :
          /\ modelFile' = artifact
          /\ scores' = IF ScoreErr(df, artifact, clf) # ""
                       THEN <<>>
                       ELSE <<score_transactions(df, clf)>>
          /\ features' = FeaturesBuilt(df, artifact)
          /\ df' = IF ScoreErr(df, artifact, clf) # "" THEN df ELSE ArgumentAfterScoring(df)
    /\ UNCHANGED <<LAW_KB, sideVars, pc, op, exc, evalVars, audit, red_flags,
                   explanation, shap_values, region, compliance, opinion, emitted>>

NextAny ==
    \/ EvaluateCall
    \/ EvaluateRule
    \/ EvaluateReturn
    \/ RunAuditAlongside
    \/ DetectRedFlagsAlongside
    \/ AddFraudScoresAlongside

SpecAny == InitOrder /\ [][NextAny]_vars

(***************************************************************************)
(* Properties of evaluate().                                               *)
(***************************************************************************)
Returned(o) == pc = "returned" /\ op = o

FindingsOf(fs, id) == SelectSeq(fs, LAMBDA f : f.Rule = id)

RuleIndex(id) == CHOOSE k \in 1..Len(build_catalogue) : build_catalogue[k].id = id

Without(cat, k) == SubSeq(cat, 1, k - 1) \o SubSeq(cat, k + 1, Len(cat))

BaseKeys == {"Rule", "Standard", "Clause", "Severity", "Detail"}
EnrichKeys == {"LawStandard", "Jurisdiction", "LawDescription", "Applicability"}

Restrict(f, keys) == [k \in keys |-> f[k]]

\* C1: when evaluate() has returned, every rule of the catalogue whose check
\* did not raise has exactly one finding with its id if its check is true and
\* no finding with its id if its check is false.
C1_OneFindingPerTrueCheck ==
    Returned("evaluate") =>
        \A k \in 1..Len(build_catalogue) :
            LET r == build_catalogue[k]
            IN CheckErr(r.id, df) = "" =>
                   Len(FindingsOf(findings, r.id)) = IF check(r.id, df) THEN 1 ELSE 0

C1_Witness ==
    /\ Returned("evaluate")
    /\ \E k \in 1..Len(build_catalogue) :
           /\ CheckErr(build_catalogue[k].id, df) = ""
           /\ check(build_catalogue[k].id, df)
           /\ Len(FindingsOf(findings, build_catalogue[k].id)) = 1
    /\ \E k \in 1..Len(build_catalogue) :
           /\ CheckErr(build_catalogue[k].id, df) = ""
           /\ ~check(build_catalogue[k].id, df)
           /\ Len(FindingsOf(findings, build_catalogue[k].id)) = 0

\* C2: fault isolation.  When evaluate() has returned and the check of a rule
\* raised, the check of every rule of the catalogue was invoked, and the
\* findings of the other rules are the findings of the catalogue without the
\* raising rule.
C2_FaultIsolation ==
    Returned("evaluate") =>
        \A k \in 1..Len(build_catalogue) :
            LET r == build_catalogue[k]
            IN CheckErr(r.id, df) # "" =>
                   /\ checked = RuleIds
                   /\ SelectSeq(findings, LAMBDA f : f.Rule # r.id)
                          = EvaluateAll(Without(build_catalogue, k), df, LAW_KB)

C2_Witness ==
    /\ Returned("evaluate")
    /\ \E k \in 2..(Len(build_catalogue) - 1) :
           /\ CheckErr(build_catalogue[k].id, df) # ""
           /\ \E i \in 1..Len(findings) :
                  /\ RuleIndex(findings[i].Rule) < k
                  /\ CheckErr(findings[i].Rule, df) = ""
           /\ \E j \in 1..Len(findings) :
                  /\ RuleIndex(findings[j].Rule) > k
                  /\ CheckErr(findings[j].Rule, df) = ""

\* C3: evaluate() raises nothing, and when it has returned every rule whose
\* check or sample raised has exactly one finding, whose Detail is
\* "[Engine Error] " followed by the message of the exception and whose
\* Severity is the severity of the rule.
C3_EngineErrorFinding ==
    /\ op = "evaluate" => exc = ""
    /\ Returned("evaluate") =>
           \A k \in 1..Len(build_catalogue) :
               LET r == build_catalogue[k]
                   fs == FindingsOf(findings, r.id)
               IN Caught(r, df) # "" =>
                      /\ Len(fs) = 1
                      /\ fs[1].Detail = "[Engine Error] " \o Caught(r, df)
                      /\ fs[1].Severity = r.severity

C3_Witness ==
    /\ Returned("evaluate")
    /\ exc = ""
    /\ \E i \in 1..Len(findings) :
           /\ findings[i].Rule = "IFRS16_LEASE_DESC"
           /\ findings[i].Detail = "[Engine Error] Can only use .str accessor with string values!"
           /\ findings[i].Severity = "Med"

\* C4: when evaluate() has returned, the finding of a rule whose check is true
\* has the Detail "<N> offending rows", N the number of rows of the rule's
\* sample, when the sample is not empty, and "Breach detected" when it is
\* empty.  No rule of the catalogue has a true check and an empty sample, so
\* the second case is checked on the sample of IFRS15_NEGREV, which is empty
\* for every ledger.
C4_OffendingRowsDetail ==
    Returned("evaluate") =>
        /\ \A k \in 1..Len(build_catalogue) :
               LET r == build_catalogue[k]
                   fs == FindingsOf(findings, r.id)
               IN (Caught(r, df) = "" /\ check(r.id, df)) =>
                      /\ Len(fs) = 1
                      /\ fs[1].Detail =
                             IF Len(sample(r.id, df)) > 0
                             THEN ToString(Len(sample(r.id, df))) \o " offending rows"
                             ELSE "Breach detected"
        /\ CheckErr("IFRS15_NEGREV", df) = "" =>
               /\ sample("IFRS15_NEGREV", df) = <<>>
               /\ OffendingDetail(sample("IFRS15_NEGREV", df)) = "Breach detected"

C4_Witness ==
    /\ Returned("evaluate")
    /\ \E i \in 1..Len(findings) :
           /\ findings[i].Rule = "ISA530_SAME_AMOUNT_DUPES"
           /\ findings[i].Detail = "2 offending rows"
           /\ Len(sample("ISA530_SAME_AMOUNT_DUPES", df)) = 2

\* C5: the findings of evaluate() are in catalogue order, engine-error
\* findings at the position of their rule, and a second evaluation of the
\* same ledger returns the list the first one returned.
C5_CatalogueOrder ==
    /\ op = "evaluate" =>
           \A i, j \in 1..Len(findings) :
               i < j => RuleIndex(findings[i].Rule) < RuleIndex(findings[j].Rule)
    /\ (Returned("evaluate") /\ calls >= 2) => findings = prev

C5_Witness ==
    /\ Returned("evaluate")
    /\ calls = 2
    /\ findings = prev
    /\ \E i \in 2..(Len(findings) - 1) :
           /\ Caught(build_catalogue[RuleIndex(findings[i].Rule)], df) # ""
           /\ Caught(build_catalogue[RuleIndex(findings[i - 1].Rule)], df) = ""
           /\ Caught(build_catalogue[RuleIndex(findings[i + 1].Rule)], df) = ""

\* C6: when evaluate() has returned, a finding, normal or engine-error, has
\* the four enrichment fields, taken from the entry of its rule, if its rule
\* id is a key of the knowledge base and none of them if it is not; and the
\* other fields of the findings are those the full knowledge base would give.
C6_EnrichmentIffInKb ==
    Returned("evaluate") =>
        LET full == EvaluateAll(build_catalogue, df, LoadKb(RuleIds))
        IN /\ Len(findings) = Len(full)
           /\ \A i \in 1..Len(findings) :
                  LET f == findings[i]
                  IN /\ Restrict(f, BaseKeys) = Restrict(full[i], BaseKeys)
                     /\ f.Rule \in DOMAIN LAW_KB =>
                            /\ DOMAIN f = BaseKeys \cup EnrichKeys
                            /\ f.LawStandard = LAW_KB[f.Rule].law_standard
                            /\ f.Jurisdiction = LAW_KB[f.Rule].jurisdiction
                            /\ f.LawDescription = LAW_KB[f.Rule].description
                            /\ f.Applicability = LAW_KB[f.Rule].applicability
                     /\ f.Rule \notin DOMAIN LAW_KB => DOMAIN f = BaseKeys

C6_Witness ==
    /\ Returned("evaluate")
    /\ \E i, j, m \in 1..Len(findings) :
           /\ findings[i].Rule \in DOMAIN LAW_KB
           /\ Caught(build_catalogue[RuleIndex(findings[i].Rule)], df) # ""
           /\ EnrichKeys \subseteq DOMAIN findings[i]
           /\ findings[j].Rule \in DOMAIN LAW_KB
           /\ Caught(build_catalogue[RuleIndex(findings[j].Rule)], df) = ""
           /\ EnrichKeys \subseteq DOMAIN findings[j]
           /\ findings[m].Rule \notin DOMAIN LAW_KB
           /\ DOMAIN findings[m] = BaseKeys

(***************************************************************************)
(* Properties of the other operations and of the audit flow.               *)
(***************************************************************************)
Range(sq) == { sq[k] : k \in 1..Len(sq) }

\* C7: when evaluate, run_audit or detect_red_flags has been called on a
\* ledger that lacks one of the columns date, description and amount, the
\* operation has raised and has returned no result.
C7_MissingColumnFailsFast ==
    (/\ pc = "returned"
     /\ op \in {"evaluate", "run_audit", "detect_red_flags"}
     /\ ~(Required \subseteq df.cols)) =>
        /\ exc # ""
        /\ findings = <<>>
        /\ audit = <<>>
        /\ red_flags = <<>>

\* C8: when the model artifact does not exist, score_transactions and the
\* explanation (also the score step of the audit flow) raise
\* FileNotFoundError and no score and no explanation is returned.
C8_MissingModelRaises ==
    (/\ modelFile = "absent"
     /\ op \in {"score_transactions", "shap_natural_language_explanation", "app"}) =>
        /\ exc = "FileNotFoundError"
        /\ scores = <<>>
        /\ explanation = <<>>

C8_Witness ==
    /\ Returned("score_transactions")
    /\ modelFile = "absent"
    /\ N(df) > 0
    /\ Required \subseteq df.cols
    /\ exc = "FileNotFoundError"
    /\ scores = <<>>

\* C9: an audit run whose ledger passed the required-column test of
\* normalise_df shows the audit summary, the issue tables and the red-flag
\* tables, whatever happens to fraud scoring and to opinion generation.
C9_SectionsAlwaysShown ==
    (/\ op = "app"
     /\ pc = "app_done"
     /\ "ledger" \in Range(emitted)) =>
        {"summary", "issues", "red_flags"} \subseteq Range(emitted)

\* C10: when run_audit has returned, the duplicates table holds exactly the
\* rows that have the date, the description and the amount of another row of
\* the ledger, each once and in ledger order, and there is no duplicates table
\* when no row has.
SharesTriple(l, k) ==
    \E j \in 1..N(l) :
        /\ j # k
        /\ l.rows[j].date = l.rows[k].date
        /\ l.rows[j].description = l.rows[k].description
        /\ l.rows[j].amount = l.rows[k].amount

C10_DuplicatesKeepAll ==
    (Returned("run_audit") /\ exc = "") =>
        LET D == { k \in 1..N(df) : SharesTriple(df, k) }
            issues == audit[1].issues
            others == NonEmpty(<< GapRows(df), Select(df, {k \in 1..N(df) : Outlier(df, k)}) >>)
        IN IF D = {}
           THEN issues = others
           ELSE /\ issues # <<>>
                /\ Range(issues[1]) = D
                /\ \A i, j \in 1..Len(issues[1]) : i < j => issues[1][i] < issues[1][j]
                /\ Tail(issues) = others

C10_Witness ==
    /\ Returned("run_audit")
    /\ exc = ""
    /\ N(df) = 3
    /\ df.rows[1] = df.rows[2]
    /\ df.rows[3] # df.rows[1]
    /\ audit[1].issues[1] = <<1, 2>>

(***************************************************************************)
(* Properties of run_audit and detect_red_flags.                           *)
(***************************************************************************)
\* The positions of S in ascending date order, ties in ledger order.
InDateOrder(l, S) == SelectSeq(SortedPositions(l), LAMBDA p : p \in S)

\* The row that precedes position p in date order, 0 for the earliest row.
Preceding(l, p) ==
    LET sp == SortedPositions(l)
        j == CHOOSE i \in 1..Len(sp) : sp[i] = p
    IN IF j = 1 THEN 0 ELSE sp[j - 1]

\* C11: when run_audit has returned, the date-gap table holds exactly the rows
\* whose date is more than 30 days (60 half days, so 30 days and 12 hours
\* count) after the date of the row that precedes them in date order, and
\* never the earliest row.
C11_GapOverThirtyDays ==
    (Returned("run_audit") /\ exc = "") =>
        LET G == { p \in 1..N(df) :
                     /\ Preceding(df, p) # 0
                     /\ df.rows[p].date - df.rows[Preceding(df, p)].date > 2 * GapDays }
        IN audit[1].issues =
               NonEmpty(<< Select(df, {k \in 1..N(df) : SharesTriple(df, k)}),
                           InDateOrder(df, G),
                           Select(df, {k \in 1..N(df) : Outlier(df, k)}) >>)

\* (amount - mean)^2 > 9 * (sum of squared deviations) / n, n the number of
\* rows: more than 3 population standard deviations from the mean.
PopulationOutlier(l, k) ==
    WGreater(WScale(WSquare(N(l) * Amt(l, k) - Total(l)), N(l)),
             WScale(SquaredDeviations(l), SigmaFactor * SigmaFactor))

\* C12: when run_audit has returned, the outlier table holds exactly the rows
\* whose amount is more than 3 population standard deviations of the amounts
\* of the ledger away from their mean.
C12_OutliersPopulationStd ==
    (Returned("run_audit") /\ exc = "") =>
        audit[1].issues =
            NonEmpty(<< Select(df, {k \in 1..N(df) : SharesTriple(df, k)}),
                        GapRows(df),
                        Select(df, {k \in 1..N(df) : PopulationOutlier(df, k)}) >>)

\* The rows listed under a Flag label in the tables, none when it has no table.
FlagRows(tables, label) ==
    UNION { Range(tables[i].rows) : i \in { m \in 1..Len(tables) : tables[m].Flag = label } }

NullOrBlank(d) == d.isna \/ \A i \in 1..Len(d.text) : IsSpace(d.text[i])

\* C14: when detect_red_flags has been called on a ledger that has the three
\* columns, a row is listed under "Missing desc" in what it returned exactly
\* when the description of the row is null, empty or whitespace only.
C14_MissingDescFlagged ==
    (Returned("detect_red_flags") /\ Required \subseteq df.cols) =>
        LET tables == IF red_flags = <<>> THEN <<>> ELSE red_flags[1]
        IN \A k \in 1..N(df) :
               k \in FlagRows(tables, "Missing desc") <=>
                   NullOrBlank(df.rows[k].description)

\* What the detector of a Flag label looks for in a row.
Matches(label, r) ==
    CASE label = "Weekend" -> DayOfWeek(r.date) \in {5, 6}
      [] label = "Rounded cash" ->
             r.amount < 0 /\ Abs(r.amount) % 1000 = 0 /\ Abs(r.amount) > 20000
      [] label = "Missing desc" -> NullOrBlank(r.description)

FlagOrder == <<"Weekend", "Rounded cash", "Missing desc">>

Occurs(key, t) ==
    \E o \in 0..(Len(t) - Len(key)) : \A i \in 1..Len(key) : t[o + i] = key[i]

\* C16: for each of the three regions, the region filter keeps of the
\* findings evaluate() returned exactly those whose Standard contains the key
\* of the region, unchanged and in order, and filtering the kept findings
\* again keeps them all; the findings the page holds after its filter pass
\* the filter of the region of the page; and no step changes the knowledge
\* base.
C16_RegionFilterIdempotent ==
    /\ [](Returned("evaluate") =>
              \A r \in Regions :
                  LET once == RegionFilter(findings, r)
                  IN /\ RegionFilter(once, r) = once
                     /\ once = SelectSeq(findings,
                                         LAMBDA c : Occurs(region_map(r), c.Standard)))
    /\ [](op = "app" => RegionFilter(compliance, region) = compliance)
    /\ [][LAW_KB' = LAW_KB]_vars

C16_Witness ==
    /\ op = "app"
    /\ pc = "app_emit"
    /\ region = "Pakistan (FBR)"
    /\ compliance # <<>>
    /\ Len(compliance) < Len(EvaluateAll(build_catalogue, df, LAW_KB))
    /\ RegionFilter(compliance, region) = compliance

\* C17: the risk percentages score_transactions returned (also to the score
\* step of the audit flow) are one per ledger row, under the index of the
\* row, each between 0 and 100 and within half a tenth of 100 times the
\* positive-class probability the classifier gave the row.  Risk is counted
\* in tenths of a percent and probability in 1/10000.
C17_RiskPercentRange ==
    scores # <<>> =>
        /\ DOMAIN scores[1] = 1..N(df)
        /\ \A k \in 1..N(df) : scores[1][k] \in 0..1000
        /\ \E clf \in Classifiers :
               /\ ScoreErr(df, "present", clf) = ""
               /\ \A k \in 1..N(df) :
                      10 * scores[1][k] - PredictProba(clf, _feature_df(df))[k] \in -5..5

C17_Witness ==
    /\ Returned("score_transactions")
    /\ exc = ""
    /\ N(df) >= 2
    /\ \E j, k \in 1..N(df) : scores[1][j] = 1000 /\ scores[1][k] = 0

\* C18: when the explanation has returned, its reasons list is empty, and
\* its text the "no dominant feature detected" one, exactly when every
\* attribution magnitude of the row is below 0.01 (10 in 1/1000); a row with
\* an attribution magnitude of 0.01 or more has reasons.
C18_ReasonsUnlessAllBelow ==
    (Returned("shap_natural_language_explanation") /\ exc = "") =>
        LET a == shap_values[1]
            allBelow == \A f \in DOMAIN a : Abs(a[f]) < 10
        IN /\ explanation[1].reasons = <<>> <=> allBelow
           /\ explanation[1].dominant <=> ~allBelow

\* C19: the feature table the scorer built has one row per ledger row, under
\* the index of that row, with the 30 columns Time, Amount and V1..V28: Time
\* is the seconds since the earliest date of the ledger that parses (0 for a
\* date that does not parse), Amount is the magnitude of the amount (0 for a
\* missing amount), and V1..V28 are 0; and the call leaves the ledger as it
\* was.
C19_FeatureTable ==
    /\ [](features # <<>> =>
              LET F == features[1]
                  parsed == (1..N(df)) \ df.nat
              IN /\ DOMAIN F = 1..N(df)
                 /\ \A k \in 1..N(df) :
                        /\ DOMAIN F[k] = {"Time", "Amount"} \cup { "V" \o ToString(i) : i \in 1..28 }
                        /\ Cardinality(DOMAIN F[k]) = 30
                        /\ k \in df.nat => F[k]["Time"] = 0
                        /\ k \in parsed =>
                               /\ \A j \in parsed :
                                      F[k]["Time"] >= 43200 * (df.rows[k].date - df.rows[j].date)
                               /\ \E j \in parsed :
                                      F[k]["Time"] = 43200 * (df.rows[k].date - df.rows[j].date)
                        /\ F[k]["Amount"] = IF k \in df.nan THEN 0 ELSE Abs(df.rows[k].amount)
                        /\ \A i \in 1..28 : F[k]["V" \o ToString(i)] = 0)
    /\ [][op' = "score_transactions" => df' = df]_vars

C19_Witness ==
    /\ Returned("score_transactions")
    /\ features # <<>>
    /\ N(df) = 3
    /\ df.nat = {3}
    /\ df.nan = {1}
    /\ features[1][1]["Time"] > 0
    /\ features[1][1]["Amount"] = 0
    /\ features[1][2]["Amount"] > 0
    /\ features[1][3]["Time"] = 0

(***************************************************************************)
(* Properties of the rule catalogue.                                       *)
(***************************************************************************)
\* What the rule with this id looks for in row k of the ledger.
RowCondition(id, l, k) ==
    LET r == l.rows[k]
    IN CASE id = "IFRS15_NEGREV" -> r.amount > 0 /\ r.amount < 0
         [] id = "IFRS16_LEASE_DESC" ->
                ~r.description.isna /\ Occurs(LeaseWord, LowerText(r.description.text))
         [] id = "ASC606_UNEARNED" ->
                ~r.description.isna /\ Occurs(UnearnedWord, LowerText(r.description.text))
         [] id = "GAAP_RND_NUMBERS" -> r.amount % 1000 = 0 /\ Abs(r.amount) > 20000
         [] id = "ISA240_ROUNDED" ->
                r.amount < 0 /\ Abs(r.amount) % 1000 = 0 /\ Abs(r.amount) > 20000
         [] id = "ISA500_MISSING_DESC" -> r.description.isna \/ r.description.text = <<>>
         [] id = "ISA530_SAME_AMOUNT_DUPES" ->
                \E j \in (1..N(l)) \ {k} :
                    l.rows[j].amount = r.amount /\ l.rows[j].description = r.description
         [] id = "PK_FBR_500K" -> Abs(r.amount) > 500000
         [] id = "PK_FBR_WEEKEND_TXNS" -> DayOfWeek(r.date) \in {5, 6}
         [] id = "MAT_EXP_5PCT" ->
                r.amount < 0 /\ 100 * Abs(r.amount)
                                    > 5 * SumOver(l, {j \in 1..N(l) : l.rows[j].amount > 0})

\* C20: when evaluate() has returned, for every rule of the catalogue that
\* did not raise on the ledger, the check is true exactly when the sample has
\* a row (and the rule has a finding exactly then), and the sample holds
\* exactly the rows that satisfy the row condition of the rule, each once and
\* in ledger order.
C20_CheckSampleConsistent ==
    Returned("evaluate") =>
        \A i \in 1..Len(build_catalogue) :
            LET id == build_catalogue[i].id
                rows == sample(id, df)
            IN RuleErr(id, df) = "" =>
                   /\ check(id, df) <=> rows # <<>>
                   /\ Len(FindingsOf(findings, id)) = IF rows # <<>> THEN 1 ELSE 0
                   /\ Range(rows) = { k \in 1..N(df) : RowCondition(id, df, k) }
                   /\ \A a, b \in 1..Len(rows) : a < b => rows[a] < rows[b]

C20_Witness ==
    /\ Returned("evaluate")
    /\ Required \subseteq df.cols
    /\ \A k \in 1..N(df) : ~df.rows[k].description.isna
    /\ check("ISA500_MISSING_DESC", df)
    /\ Len(sample("ISA500_MISSING_DESC", df)) \in 1..(N(df) - 1)
    /\ ~check("PK_FBR_500K", df)
    /\ sample("PK_FBR_500K", df) = <<>>

(***************************************************************************)
(* Properties of the opinion.                                              *)
(***************************************************************************)
\* C23: the opinion step of the audit flow raises nothing, and when the
\* external generator failed (it is not installed, it timed out or it exited
\* with a non-zero status) the opinion the page holds is not the empty text.
C23_OpinionPlaceholderOnFailure ==
    (/\ op = "app"
     /\ opinion # <<>>
     /\ generator \in {"not_installed", "timeout", "exit_nonzero"}) =>
        /\ exc = ""
        /\ opinion[1] # ""

(***************************************************************************)
(* Properties of evaluate() under other orders.                            *)
(***************************************************************************)
\* The knowledge base cut down to the entry of one rule, if it has one.
KbEntryOnly(kb, id) == [k \in DOMAIN kb \cap {id} |-> kb[k]]

\* C21: when evaluate() has returned from a catalogue that holds the rules in
\* another order, or some of them only, the findings it holds for a rule of
\* that catalogue are what the rule gives when it is evaluated alone on the
\* ledger with its own knowledge-base entry, and what it gets in catalogue
\* order with all the rules, whichever other rules ran before it, were left
\* out or raised; and there is no finding for a rule that was left out.
C21_RuleIndependence ==
    Returned("evaluate") =>
        /\ \A i \in 1..Len(catalogue) :
               LET r == catalogue[i]
               IN /\ FindingsOf(findings, r.id) = RuleFindings(r, df, KbEntryOnly(LAW_KB, r.id))
                  /\ FindingsOf(findings, r.id)
                         = FindingsOf(EvaluateAll(build_catalogue, df, LAW_KB), r.id)
        /\ \A j \in 1..Len(findings) :
               \E i \in 1..Len(catalogue) : catalogue[i].id = findings[j].Rule

C21_Witness ==
    /\ Returned("evaluate")
    /\ catalogue = Dropped(Reversed(build_catalogue), 2)
    /\ \E i, j, k \in 1..Len(catalogue) :
           /\ i < j /\ j < k
           /\ Caught(catalogue[i], df) # ""
           /\ Caught(catalogue[j], df) = "" /\ check(catalogue[j].id, df)
           /\ Len(FindingsOf(findings, catalogue[j].id)) = 1
           /\ Caught(catalogue[k], df) = "" /\ ~check(catalogue[k].id, df)
           /\ FindingsOf(findings, catalogue[k].id) = <<>>

\* C22: no step of evaluate, run_audit, detect_red_flags or add_fraud_scores
\* changes the ledger or the knowledge base; every call of evaluate starts
\* from the catalogue build_catalogue() gives and from no findings; and in
\* whatever order and interleaving the operations ran, the result each one
\* left is the result it gives on the ledger alone.
C22_FrameAndOrderFree ==
    /\ [][df' = df /\ LAW_KB' = LAW_KB]_vars
    /\ [][(pc' = "evaluate" /\ calls' # calls)
              => (catalogue' = build_catalogue /\ findings' = <<>> /\ ruleIdx' = 1)]_vars
    /\ [](Returned("evaluate") => findings = EvaluateAll(build_catalogue, df, LAW_KB))
    /\ [](audit # <<>> => RunAuditErr(df) = "" /\ audit[1] = run_audit(df))
    /\ [](red_flags # <<>> => RedFlagsErr(df) = "" /\ red_flags[1] = detect_red_flags(df))
    /\ [](scores # <<>> =>
              \E clf \in Classifiers :
                  ScoreErr(df, "present", clf) = "" /\ scores[1] = score_transactions(df, clf))

C22_Witness ==
    /\ pc = "evaluate"
    /\ calls = 2
    /\ ruleIdx = 5
    /\ prev # <<>>
    /\ findings # <<>>
    /\ audit # <<>>
    /\ red_flags # <<>>
    /\ scores # <<>>
    /\ N(df) > 0

(***************************************************************************)
(* Properties of normalise_df.                                             *)
(***************************************************************************)
\* What the names of the uploads are taken for.
TakenFor(name) ==
    IF name \in { <<"D", "a", "t", "e">>, <<"t", "r", "a", "n", "s", "_", "d", "a", "t", "e">> }
    THEN "date"
    ELSE IF name \in { <<" ", "A", "m", "o", "u", "n", "t">>, <<"A", "M", "T">> }
    THEN "amount"
    ELSE IF name = <<"D", "e", "t", "a", "i", "l", "s">> THEN "description"
    ELSE "other"

\* The first column of the upload taken for c, 0 when there is none.
ColumnFor(frame, c) ==
    IF \E j \in 1..Len(frame.names) : TakenFor(frame.names[j]) = c
    THEN CHOOSE j \in 1..Len(frame.names) :
             /\ TakenFor(frame.names[j]) = c
             /\ \A i \in 1..(j - 1) : TakenFor(frame.names[i]) # c
    ELSE 0

\* C24: when normalise_df has been called on an upload, either one of date,
\* description and amount is the name of no column after lower-casing,
\* stripping and aliasing, and it raised ValueError and returned nothing; or
\* it raised nothing and returned a ledger with exactly the columns date,
\* description and amount, without a null date or amount, whose rows are the
\* rows of the upload whose date and amount (in the first column of that
\* name) both parse, each as often as in the upload, in ascending order of
\* date under the index 0..n-1 (positions 1..n).
C24_NormaliseShape ==
    Returned("normalise_df") =>
        LET dc == ColumnFor(df, "date")
            sc == ColumnFor(df, "description")
            ac == ColumnFor(df, "amount")
        IN IF dc = 0 \/ sc = 0 \/ ac = 0
           THEN exc = "ValueError" /\ normalised = <<>>
           ELSE /\ exc = ""
                /\ normalised # <<>>
                /\ LET out == normalised[1]
                       good == { k \in 1..Len(df.rows) :
                                   df.rows[k][dc].date # <<>> /\ df.rows[k][ac].amount # <<>> }
                       made(k) == Row(df.rows[k][dc].date[1], df.rows[k][sc].description,
                                      df.rows[k][ac].amount[1])
                   IN /\ out.cols = {"date", "description", "amount"}
                      /\ out.nat = {} /\ out.nan = {}
                      /\ DOMAIN out.rows = 1..Cardinality(good)
                      /\ \A i, j \in 1..Len(out.rows) :
                             i < j => out.rows[i].date <= out.rows[j].date
                      /\ \A i \in 1..Len(out.rows) : \E k \in good : out.rows[i] = made(k)
                      /\ \A k \in good :
                             Cardinality({ i \in 1..Len(out.rows) : out.rows[i] = made(k) })
                                 = Cardinality({ j \in good : made(j) = made(k) })

C24_Witness ==
    /\ Returned("normalise_df")
    /\ exc = ""
    /\ Len(df.names) = 4
    /\ df.names[1] = <<"t", "r", "a", "n", "s", "_", "d", "a", "t", "e">>
    /\ df.names[2] = <<"D", "a", "t", "e">>
    /\ Len(df.rows) = 2
    /\ df.rows[1][1].date = <<6>>
    /\ df.rows[2][1].date = <<>>
    /\ Len(normalised[1].rows) = 1
    /\ normalised[1].rows[1].date = 6

(***************************************************************************)
(* Properties of the explanation.                                          *)
(***************************************************************************)
\* How many features come before f when the attributions are put in
\* descending order of magnitude, equal magnitudes in the order of the table.
Rank(a, f) ==
    LET at(g) == CHOOSE j \in 1..Len(FeatureNames) : FeatureNames[j] = g
    IN Cardinality({ g \in DOMAIN a :
                       \/ Abs(a[g]) > Abs(a[f])
                       \/ Abs(a[g]) = Abs(a[f]) /\ at(g) < at(f) })

ByMagnitude(a) == [i \in 1..Cardinality(DOMAIN a) |-> CHOOSE f \in DOMAIN a : Rank(a, f) = i - 1]

First(sq, n) == SubSeq(sq, 1, IF Len(sq) < n THEN Len(sq) ELSE n)

\* Filter by the threshold, then take three; take three, then filter.
FilterThenTop(a) == First(SelectSeq(ByMagnitude(a), LAMBDA f : Abs(a[f]) > 10), 3)
TopThenFilter(a) == SelectSeq(First(ByMagnitude(a), 3), LAMBDA f : Abs(a[f]) > 10)

Glossary(f) ==
    IF f = "Amount" THEN "large amount"
    ELSE IF f = "Time" THEN "date anomaly"
    ELSE IF f \in {"V1", "V2", "V3"} THEN "unusual pattern (" \o f \o ")"
    ELSE f

ExpectedReasons == [a \in AttrVecs |-> [i \in 1..Len(FilterThenTop(a)) |-> Glossary(FilterThenTop(a)[i])]]
OrdersAgree == \A a \in AttrVecs : FilterThenTop(a) = TopThenFilter(a)

\* C25: when the explanation has returned, its reasons are the glossary names
\* (a feature without one keeps its own name) of the up to three attributions
\* of largest magnitude among those whose magnitude is over 0.01 (10 in
\* 1/1000), in descending order of magnitude; and for every attribution
\* vector, filtering by the threshold and then taking three gives what taking
\* three and then filtering gives.
C25_TopThreeOverThreshold ==
    /\ OrdersAgree
    /\ (Returned("shap_natural_language_explanation") /\ exc = "") =>
           explanation[1].reasons = ExpectedReasons[shap_values[1]]

C25_Witness ==
    /\ Returned("shap_natural_language_explanation")
    /\ exc = ""
    /\ Cardinality({ f \in DOMAIN shap_values[1] : Abs(shap_values[1][f]) > 10 }) = 4
    /\ explanation[1].reasons = <<"V7", "V8", "V9">>

(***************************************************************************)
(* Properties of the catalogue under the region filter.                    *)
(***************************************************************************)
IsaRules == {"ISA240_ROUNDED", "ISA500_MISSING_DESC", "ISA530_SAME_AMOUNT_DUPES", "MAT_EXP_5PCT"}

ShownKeys == {Chars_PakistanFBR, Chars_USGAAP, Chars_IFRS}

\* C28: the rules whose standard is an ISA standard are ISA240_ROUNDED,
\* ISA500_MISSING_DESC, ISA530_SAME_AMOUNT_DUPES and MAT_EXP_5PCT; for each of
\* the three regions the region filter drops every finding of these rules
\* from what evaluate() returned, and the findings the page holds after its
\* filter are of other rules and have a Standard that contains "Pakistan
\* FBR", "US-GAAP" or "IFRS".
C28_IsaFindingsNeverShown ==
    /\ IsaRules = { build_catalogue[k].id : k \in { i \in 1..Len(build_catalogue) :
                        SubSeq(build_catalogue[i].standard, 1, 3) = <<"I", "S", "A">> } }
    /\ Returned("evaluate") =>
           \A r \in Regions :
               LET kept == RegionFilter(findings, r)
               IN \A i \in 1..Len(kept) :
                      /\ kept[i].Rule \notin IsaRules
                      /\ \E key \in ShownKeys : Occurs(key, kept[i].Standard)
    /\ op = "app" =>
           \A i \in 1..Len(compliance) :
               /\ compliance[i].Rule \notin IsaRules
               /\ \E key \in ShownKeys : Occurs(key, compliance[i].Standard)

C28_Witness ==
    /\ op = "app"
    /\ pc = "app_emit"
    /\ region = "UK (IFRS)"
    /\ compliance # <<>>
    /\ LET all == EvaluateAll(build_catalogue, df, LAW_KB)
       IN /\ \A id \in IsaRules : \E i \in 1..Len(all) : all[i].Rule = id
          /\ \A i \in 1..Len(compliance) : compliance[i].Rule \notin IsaRules

\* C29: on a ledger that has the columns date, description and amount the
\* check of IFRS15_NEGREV is false and its sample is empty, and neither what
\* evaluate() returned nor what the page holds has a finding of that rule.
C29_NegRevNeverFires ==
    (Required \subseteq df.cols) =>
        /\ Returned("evaluate") =>
               /\ ~check("IFRS15_NEGREV", df)
               /\ sample("IFRS15_NEGREV", df) = <<>>
               /\ FindingsOf(findings, "IFRS15_NEGREV") = <<>>
        /\ op = "app" => FindingsOf(compliance, "IFRS15_NEGREV") = <<>>

C29_Witness ==
    /\ Returned("evaluate")
    /\ Required \subseteq df.cols
    /\ \E j, k \in 1..N(df) : df.rows[j].amount > 0 /\ df.rows[k].amount < 0
    /\ findings # <<>>
    /\ FindingsOf(findings, "IFRS15_NEGREV") = <<>>

RECURSIVE PositiveSum(_, _)
PositiveSum(l, n) ==
    IF n = 0 THEN 0
    ELSE PositiveSum(l, n - 1) + (IF l.rows[n].amount > 0 THEN l.rows[n].amount ELSE 0)

\* C26: when evaluate() has returned on a ledger that has an amount column,
\* it holds a finding of MAT_EXP_5PCT exactly when some row has a negative
\* amount whose magnitude is more than 5% of the sum of the positive amounts
\* of the ledger (20 times the magnitude is more than the sum), the finding
\* counts exactly these rows, and on a ledger without a positive amount the
\* rule fires exactly when the ledger has a negative amount.
C26_MaterialExpense ==
    (Returned("evaluate") /\ Has(df, "amount")) =>
        LET rev == PositiveSum(df, N(df))
            big == { k \in 1..N(df) :
                       df.rows[k].amount < 0 /\ 20 * Abs(df.rows[k].amount) > rev }
            fs == FindingsOf(findings, "MAT_EXP_5PCT")
        IN /\ fs # <<>> <=> big # {}
           /\ fs # <<>> => fs[1].Detail = ToString(Cardinality(big)) \o " offending rows"
           /\ (\A k \in 1..N(df) : df.rows[k].amount <= 0) =>
                  (fs # <<>> <=> \E k \in 1..N(df) : df.rows[k].amount # 0)

C26_Witness ==
    /\ Returned("evaluate")
    /\ \A k \in 1..N(df) : df.rows[k].amount <= 0
    /\ Cardinality({ k \in 1..N(df) : df.rows[k].amount = 0 }) = 10
    /\ \E i \in 1..Len(findings) :
           findings[i].Rule = "MAT_EXP_5PCT" /\ findings[i].Detail = "1 offending rows"

\* C30: when detect_red_flags has been called on a ledger that has the three
\* columns, every row ISA500_MISSING_DESC samples is listed under "Missing
\* desc" in what it returned, and a row whose description is not empty and
\* is made of whitespace only is listed there and is not sampled by the rule.
C30_MissingDescCoversIsa500 ==
    (Returned("detect_red_flags") /\ Required \subseteq df.cols) =>
        LET tables == IF red_flags = <<>> THEN <<>> ELSE red_flags[1]
            sampled == Range(sample("ISA500_MISSING_DESC", df))
        IN /\ sampled \subseteq FlagRows(tables, "Missing desc")
           /\ \A k \in 1..N(df) :
                  (/\ ~df.rows[k].description.isna
                   /\ df.rows[k].description.text # <<>>
                   /\ \A i \in 1..Len(df.rows[k].description.text) :
                          IsSpace(df.rows[k].description.text[i])) =>
                      /\ k \in FlagRows(tables, "Missing desc")
                      /\ k \notin sampled

====
